---- MODULE Spec2Model ----
(***************************************************************************)
(* Model of the youtube package of yt-download: Get / fetchMeta /          *)
(* parseMeta (manifest resolution), decipherURL / decryptSignature         *)
(* (signature descrambling) and Video.IndexByItag.                         *)
(*                                                                         *)
(* Text is modelled as a sequence of one-character strings, so that        *)
(* url.ParseQuery, url.QueryEscape, strings.Contains and the quoting of    *)
(* the signature inside the script call are computed, not assumed.         *)
(***************************************************************************)
EXTENDS Integers, Sequences, FiniteSets, TLC

(***************************************************************************)
(* strings / strconv helpers of the Go standard library                    *)
(***************************************************************************)

\* strings.Contains(s, sub)
Contains(s, sub) ==
    \E i \in 0..(Len(s) - Len(sub)) : SubSeq(s, i + 1, i + Len(sub)) = sub

\* strings.IndexByte(s, c) + 1: the first position of c in s, 0 when absent
IndexOf(s, c) ==
    IF \E i \in 1..Len(s) : s[i] = c
    THEN CHOOSE i \in 1..Len(s) : s[i] = c /\ \A j \in 1..(i - 1) : s[j] # c
    ELSE 0

\* strings.Cut(s, c)
Cut(s, c) ==
    LET i == IndexOf(s, c) IN
    IF i = 0 THEN [before |-> s, after |-> <<>>, found |-> FALSE]
    ELSE [before |-> SubSeq(s, 1, i - 1), after |-> SubSeq(s, i + 1, Len(s)),
          found |-> TRUE]

Digit(n) == (0 :> "0" @@ 1 :> "1" @@ 2 :> "2" @@ 3 :> "3" @@ 4 :> "4" @@
             5 :> "5" @@ 6 :> "6" @@ 7 :> "7" @@ 8 :> "8" @@ 9 :> "9")[n]

RECURSIVE Itoa(_)
\* fmt.Sprintf("%d", n)
Itoa(n) ==
    IF n < 0 THEN <<"-">> \o Itoa(0 - n)
    ELSE IF n < 10 THEN <<Digit(n)>>
    ELSE Itoa(n \div 10) \o <<Digit(n % 10)>>

(***************************************************************************)
(* regexp: the expressions of the package, matched as Go matches them      *)
(* (leftmost match; at each repetition the preferred count first: the      *)
(* largest for a greedy one, the smallest for a lazy one).                 *)
(*                                                                         *)
(* An expression is a sequence of items:                                   *)
(*   [k |-> "set", neg, set, min, max, lazy]  a character of the set (not  *)
(*          of it when neg), min to max times (max -1: any number)         *)
(*   [k |-> "lit", lit]           the text lit, character by character     *)
(*   [k |-> "b"]                  the word boundary \b                      *)
(*   [k |-> "open", g], [k |-> "close", g]    the brackets of group g      *)
(*   [k |-> "opt", lit]           the optional text (lit)?                 *)
(* Positions count the characters before them, from 0.                     *)
(***************************************************************************)

Lower ==
    {"a","b","c","d","e","f","g","h","i","j","k","l","m","n","o","p","q","r",
     "s","t","u","v","w","x","y","z"}
Upper ==
    {"A","B","C","D","E","F","G","H","I","J","K","L","M","N","O","P","Q","R",
     "S","T","U","V","W","X","Y","Z"}
Digits == {"0","1","2","3","4","5","6","7","8","9"}

\* [a-zA-Z]
Letters == Lower \cup Upper
\* [a-zA-Z0-9]
Alnum == Letters \cup Digits
\* [a-zA-Z0-9$]
NameChars == Alnum \cup {"$"}
\* \s
Space == {" ", "\t", "\n", "\r", "\f"}
\* \w
WordChars == Alnum \cup {"_"}

\* a text taken literally (also what regexp.QuoteMeta makes of a text)
Lit(str) == <<[k |-> "lit", lit |-> str]>>
One(set) == [k |-> "set", neg |-> FALSE, set |-> set, min |-> 1, max |-> 1,
             lazy |-> FALSE]
\* set* , set+ , set{2,}
Many(set, min) == [k |-> "set", neg |-> FALSE, set |-> set, min |-> min,
                   max |-> -1, lazy |-> FALSE]
\* [^set]+
ManyNot(set) == [k |-> "set", neg |-> TRUE, set |-> set, min |-> 1, max |-> -1,
                 lazy |-> FALSE]
\* .+?  (the dot matches every character but the line feed)
DotPlusLazy == [k |-> "set", neg |-> TRUE, set |-> {"\n"}, min |-> 1,
                max |-> -1, lazy |-> TRUE]
\* \s*
Ws == Many(Space, 0)
WordB == [k |-> "b"]
Open(g) == [k |-> "open", g |-> g]
Close(g) == [k |-> "close", g |-> g]
Opt(lit) == [k |-> "opt", lit |-> lit]

NoCaps == [g \in {1, 2} |-> <<-1, -1>>]
NoMatch == [ok |-> FALSE, from |-> 0, to |-> 0, caps |-> NoCaps]

Accepts(a, c) == IF a.neg THEN c \notin a.set ELSE c \in a.set

\* how many characters from pos on item a can take at most
RunLen(a, s, pos) ==
    LET lim == IF a.max < 0 \/ a.max > Len(s) - pos THEN Len(s) - pos ELSE a.max
        ok(n) == \A j \in 1..n : Accepts(a, s[pos + j])
    IN  CHOOSE n \in 0..lim : ok(n) /\ \A m \in (n + 1)..lim : ~ok(m)

\* strings.HasPrefix(s[pos:], lit)
HasAt(s, pos, lit) ==
    pos + Len(lit) <= Len(s) /\ SubSeq(s, pos + 1, pos + Len(lit)) = lit

IsWordAt(s, i) == i >= 1 /\ i <= Len(s) /\ s[i] \in WordChars

WordBoundary(s, pos) == IsWordAt(s, pos) # IsWordAt(s, pos + 1)

RECURSIVE MatchFrom(_, _, _, _, _)
\* the match of the items k.. of re at position pos, the groups so far in caps
MatchFrom(re, s, k, pos, caps) ==
    IF k > Len(re) THEN [ok |-> TRUE, from |-> 0, to |-> pos, caps |-> caps]
    ELSE LET a == re[k] IN
         IF a.k = "b"
         THEN IF WordBoundary(s, pos) THEN MatchFrom(re, s, k + 1, pos, caps)
              ELSE NoMatch
         ELSE IF a.k = "open"
         THEN MatchFrom(re, s, k + 1, pos, [caps EXCEPT ![a.g] = <<pos, pos>>])
         ELSE IF a.k = "close"
         THEN MatchFrom(re, s, k + 1, pos, [caps EXCEPT ![a.g][2] = pos])
         ELSE IF a.k = "lit"
         THEN IF HasAt(s, pos, a.lit)
              THEN MatchFrom(re, s, k + 1, pos + Len(a.lit), caps)
              ELSE NoMatch
         ELSE IF a.k = "opt"
         THEN LET with == IF HasAt(s, pos, a.lit)
                          THEN MatchFrom(re, s, k + 1, pos + Len(a.lit), caps)
                          ELSE NoMatch
              IN  IF with.ok THEN with ELSE MatchFrom(re, s, k + 1, pos, caps)
         ELSE LET hi   == RunLen(a, s, pos)
                  good == {n \in a.min..hi :
                              MatchFrom(re, s, k + 1, pos + n, caps).ok}
                  n    == IF a.lazy
                          THEN CHOOSE x \in good : \A y \in good : x <= y
                          ELSE CHOOSE x \in good : \A y \in good : x >= y
              IN  IF hi < a.min THEN NoMatch
                  ELSE IF hi = a.min THEN MatchFrom(re, s, k + 1, pos + hi, caps)
                  ELSE IF good = {} THEN NoMatch
                  ELSE MatchFrom(re, s, k + 1, pos + n, caps)

\* regexp.FindStringSubmatch / FindStringIndex / FindString: the leftmost match
Find(re, s) ==
    LET starts == {i \in 0..Len(s) : MatchFrom(re, s, 1, i, NoCaps).ok}
        start  == CHOOSE i \in starts : \A j \in starts : i <= j
    IN  IF starts = {} THEN NoMatch
        ELSE [MatchFrom(re, s, 1, start, NoCaps) EXCEPT !.from = start]

\* matches[g] of FindStringSubmatch
Group(s, m, g) == SubSeq(s, m.caps[g][1] + 1, m.caps[g][2])

\* the matched text (matches[0], FindString)
Matched(s, m) == SubSeq(s, m.from + 1, m.to)

(***************************************************************************)
(* net/url: QueryEscape, QueryUnescape, ParseQuery, Values.Get             *)
(***************************************************************************)

\* the characters url.QueryEscape leaves alone (shouldEscape reports false)
Unreserved ==
    {"a","b","c","d","e","f","g","h","i","j","k","l","m","n","o","p","q","r",
     "s","t","u","v","w","x","y","z","A","B","C","D","E","F","G","H","I","J",
     "K","L","M","N","O","P","Q","R","S","T","U","V","W","X","Y","Z",
     "0","1","2","3","4","5","6","7","8","9","-","_",".","~"}

\* the bytes that occur escaped in the modelled inputs, with their hex digits
HexTable ==
    (":" :> <<"3","A">> @@ "/" :> <<"2","F">> @@ "?" :> <<"3","F">> @@
     "=" :> <<"3","D">> @@ "&" :> <<"2","6">> @@ "\"" :> <<"2","2">> @@
     "\\" :> <<"5","C">> @@ "%" :> <<"2","5">> @@ "+" :> <<"2","B">> @@
     ";" :> <<"3","B">> @@ "-" :> <<"2","D">> @@ "#" :> <<"2","3">> @@
     "x" :> <<"7","8">>)

HexDigits ==
    {"0","1","2","3","4","5","6","7","8","9","A","B","C","D","E","F",
     "a","b","c","d","e","f"}

\* the byte written %h1h2 (a byte outside HexTable stays a token of its own)
ByteOf(h1, h2) ==
    IF \E c \in DOMAIN HexTable : HexTable[c] = <<h1, h2>>
    THEN CHOOSE c \in DOMAIN HexTable : HexTable[c] = <<h1, h2>>
    ELSE "%" \o h1 \o h2

RECURSIVE QueryEscape(_)
\* url.QueryEscape(s)
QueryEscape(s) ==
    IF s = <<>> THEN <<>>
    ELSE LET c == Head(s) IN
         (IF c \in Unreserved THEN <<c>>
          ELSE IF c = " " THEN <<"+">>
          ELSE IF c \in DOMAIN HexTable THEN <<"%">> \o HexTable[c]
          ELSE <<"%", "?", "?">>) \o QueryEscape(Tail(s))

\* url.unescape's first pass: every % is followed by two hex digits
EscapesValid(s) ==
    \A i \in 1..Len(s) :
        s[i] = "%" => /\ i + 2 <= Len(s)
                      /\ s[i + 1] \in HexDigits
                      /\ s[i + 2] \in HexDigits

RECURSIVE UnescapeValid(_)
UnescapeValid(s) ==
    IF s = <<>> THEN <<>>
    ELSE IF Head(s) = "%"
         THEN <<ByteOf(s[2], s[3])>> \o UnescapeValid(SubSeq(s, 4, Len(s)))
    ELSE IF Head(s) = "+" THEN <<" ">> \o UnescapeValid(Tail(s))
    ELSE <<Head(s)>> \o UnescapeValid(Tail(s))

\* url.QueryUnescape(s)
QueryUnescape(s) ==
    IF EscapesValid(s) THEN [err |-> FALSE, val |-> UnescapeValid(s)]
    ELSE [err |-> TRUE, val |-> <<>>]

RECURSIVE ParseQuery(_)
\* url.ParseQuery(query): the pairs in order, and whether any pair was rejected
ParseQuery(query) ==
    IF query = <<>> THEN [err |-> FALSE, vals |-> <<>>]
    ELSE LET c    == Cut(query, "&")
             rest == ParseQuery(c.after)
             kv   == Cut(c.before, "=")
             k    == QueryUnescape(kv.before)
             v    == QueryUnescape(kv.after)
         IN  IF Contains(c.before, <<";">>)
             THEN [err |-> TRUE, vals |-> rest.vals]
             ELSE IF c.before = <<>> THEN rest
             ELSE IF k.err \/ v.err THEN [err |-> TRUE, vals |-> rest.vals]
             ELSE [err |-> rest.err, vals |-> <<<<k.val, v.val>>>> \o rest.vals]

\* url.Values.Get(key): the first value of key, "" when there is none
ValuesGet(vals, key) ==
    IF \E i \in 1..Len(vals) : vals[i][1] = key
    THEN vals[CHOOSE i \in 1..Len(vals) :
                 vals[i][1] = key /\ \A j \in 1..(i - 1) : vals[j][1] # key][2]
    ELSE <<>>

(***************************************************************************)
(* The script bundle and the sandbox.                                      *)
(*                                                                         *)
(* A bundle is described by what the locator and the fragment extractors   *)
(* find in it and by what its descrambling function does when called:      *)
(*   funcName    the name extractDecryptFunction captures, <<>> when no    *)
(*               pattern matches                                           *)
(*   helperName  the helper name it captures, <<>> when none               *)
(*   helperDef   "none" (extractHelperObject finds no definition),         *)
(*               "broken" (the fragment it returns does not load), "ok"    *)
(*   funcDef     the same for extractFullDecryptFunction                   *)
(*   body        "reverse" (returns its argument reversed),                *)
(*               "helper_reverse" (the same, through the helper object),   *)
(*               "undefined" (returns no string), "throws"                 *)
(***************************************************************************)

Undefined == <<"u","n","d","e","f","i","n","e","d">>

RECURSIVE Reverse(_)
Reverse(s) == IF s = <<>> THEN <<>> ELSE Reverse(Tail(s)) \o <<Head(s)>>

RECURSIVE JsLiteral(_, _, _)
\* The value of the string literal in the source text  name("<sig>") , read
\* from position i of sig on.  The text of sig is pasted between the quotes
\* as it is: a quote inside it ends the literal early and what follows is no
\* argument list; a backslash takes the next character with it, the closing
\* quote included; a line break cannot occur inside a literal.  (The
\* signatures of the modelled ciphers are written with A, B, the quote and the
\* backslash: behind a backslash each of them stands for itself.)
JsLiteral(sig, i, acc) ==
    IF i > Len(sig) THEN [err |-> FALSE, val |-> acc]
    ELSE IF sig[i] = "\"" \/ sig[i] = "\n" THEN [err |-> TRUE, val |-> <<>>]
    ELSE IF sig[i] = "\\"
         THEN IF i = Len(sig) THEN [err |-> TRUE, val |-> <<>>]
              ELSE JsLiteral(sig, i + 2, acc \o <<sig[i + 1]>>)
    ELSE JsLiteral(sig, i + 1, acc \o <<sig[i]>>)

\* extractDecryptFunction(playerCode)
extractDecryptFunction(playerCode) ==
    IF playerCode.funcName = <<>>
    THEN [err |-> TRUE, funcName |-> <<>>, helperName |-> <<>>]
    ELSE [err |-> FALSE, funcName |-> playerCode.funcName,
          helperName |-> playerCode.helperName]

\* extractHelperObject(playerCode, helperName): the fragment, "" when none
extractHelperObject(playerCode, helperName) ==
    IF helperName = <<>> THEN [err |-> FALSE, code |-> ""]
    ELSE IF playerCode.helperDef = "none" THEN [err |-> TRUE, code |-> ""]
    ELSE [err |-> FALSE, code |-> playerCode.helperDef]

\* extractFullDecryptFunction(playerCode, funcName)
extractFullDecryptFunction(playerCode, funcName) ==
    IF playerCode.funcDef = "none" THEN [err |-> TRUE, code |-> ""]
    ELSE [err |-> FALSE, code |-> playerCode.funcDef]

\* vm.RunString(fragment) of a definition fragment: does it load
RunFragment(code) == code = "ok"

\* vm.RunString(name("<sig>")) followed by result.String(), in a context in
\* which the function fragment is loaded and the helper is or is not
RunCall(playerCode, helperLoaded, signature) ==
    LET arg == JsLiteral(signature, 1, <<>>) IN
    IF arg.err THEN [err |-> TRUE, val |-> <<>>]
    ELSE IF playerCode.body = "throws" THEN [err |-> TRUE, val |-> <<>>]
    ELSE IF playerCode.body = "helper_reverse" /\ ~helperLoaded
         THEN [err |-> TRUE, val |-> <<>>]
    ELSE IF playerCode.body = "undefined" THEN [err |-> FALSE, val |-> Undefined]
    ELSE [err |-> FALSE, val |-> Reverse(arg.val)]

\* decryptSignature(signature, playerCode)
decryptSignature(signature, playerCode) ==
    LET loc        == extractDecryptFunction(playerCode)
        helperCode == extractHelperObject(playerCode, loc.helperName).code
        func       == extractFullDecryptFunction(playerCode, loc.funcName)
    IN  IF loc.err THEN [err |-> TRUE, val |-> <<>>]
        ELSE IF func.err THEN [err |-> TRUE, val |-> <<>>]
        ELSE IF helperCode # "" /\ ~RunFragment(helperCode)
             THEN [err |-> TRUE, val |-> <<>>]
        ELSE IF ~RunFragment(func.code) THEN [err |-> TRUE, val |-> <<>>]
        ELSE RunCall(playerCode, helperCode # "", signature)

\* decipherURL(signatureCipher, playerCode); chain tells whether
\* decryptSignature was called
decipherURL(signatureCipher, playerCode) ==
    LET params    == ParseQuery(signatureCipher)
        baseURL   == ValuesGet(params.vals, <<"u","r","l">>)
        signature == ValuesGet(params.vals, <<"s">>)
        sp        == ValuesGet(params.vals, <<"s","p">>)
        sigParam  == IF sp = <<>> THEN <<"s","i","g","n","a","t","u","r","e">>
                     ELSE sp
        dec       == decryptSignature(signature, playerCode)
        sep       == IF Contains(baseURL, <<"?">>) THEN <<"&">> ELSE <<"?">>
    IN  IF params.err THEN [err |-> TRUE, url |-> <<>>, chain |-> FALSE]
        ELSE IF baseURL = <<>> THEN [err |-> TRUE, url |-> <<>>, chain |-> FALSE]
        ELSE IF signature = <<>>
             THEN [err |-> FALSE, url |-> baseURL, chain |-> FALSE]
        ELSE IF dec.err THEN [err |-> TRUE, url |-> <<>>, chain |-> TRUE]
        ELSE [err |-> FALSE, chain |-> TRUE,
              url |-> baseURL \o sep \o sigParam \o <<"=">> \o QueryEscape(dec.val)]

(***************************************************************************)
(* parseMeta's loop body (one stream descriptor)                           *)
(***************************************************************************)

\* a failed descrambling loses the stream's URL instead of keeping the base URL
ResolveURL_dropOnFail(f, playerCode) ==
    IF f.URL # <<>> \/ f.SignatureCipher = <<>>
    THEN [url |-> f.URL, chain |-> FALSE]
    ELSE LET cipherParams == ParseQuery(f.SignatureCipher)
             base         == ValuesGet(cipherParams.vals, <<"u","r","l">>)
             signature    == ValuesGet(cipherParams.vals, <<"s">>)
             d            == decipherURL(f.SignatureCipher, playerCode)
         IN  IF cipherParams.err THEN [url |-> <<>>, chain |-> FALSE]
             ELSE IF ~playerCode.empty /\ signature # <<>>
                  THEN [url |-> d.url, chain |-> d.chain]
             ELSE [url |-> base, chain |-> FALSE]

\* the chain is tried without a script bundle
ResolveURL_noBundleCheck(f, playerCode) ==
    IF f.URL # <<>> \/ f.SignatureCipher = <<>>
    THEN [url |-> f.URL, chain |-> FALSE]
    ELSE LET cipherParams == ParseQuery(f.SignatureCipher)
             base         == ValuesGet(cipherParams.vals, <<"u","r","l">>)
             signature    == ValuesGet(cipherParams.vals, <<"s">>)
             d            == decipherURL(f.SignatureCipher, playerCode)
         IN  IF cipherParams.err THEN [url |-> <<>>, chain |-> FALSE]
             ELSE IF signature # <<>>
                  THEN [url |-> IF d.err THEN base ELSE d.url, chain |-> d.chain]
             ELSE [url |-> base, chain |-> FALSE]

\* lines 677-698: the URL of descriptor f ("" when none), and whether the
\* descrambling chain ran for it
ResolveURL(f, playerCode) ==
    IF f.URL # <<>> \/ f.SignatureCipher = <<>>
    THEN [url |-> f.URL, chain |-> FALSE]
    ELSE LET cipherParams == ParseQuery(f.SignatureCipher)
             base         == ValuesGet(cipherParams.vals, <<"u","r","l">>)
             signature    == ValuesGet(cipherParams.vals, <<"s">>)
             d            == decipherURL(f.SignatureCipher, playerCode)
         IN  IF cipherParams.err THEN [url |-> <<>>, chain |-> FALSE]
             ELSE IF ~playerCode.empty /\ signature # <<>>
                  THEN [url |-> IF d.err THEN base ELSE d.url, chain |-> d.chain]
             ELSE [url |-> base, chain |-> FALSE]

\* the height is used when it is not negative
QualityLabel_zeroHeight(f) ==
    IF f.Quality # <<>> THEN f.Quality
    ELSE IF f.Height >= 0 THEN Itoa(f.Height) \o <<"p">>
    ELSE <<"u","n","k","n","o","w","n">>

\* lines 705-713: the quality label
QualityLabel(f) ==
    IF f.Quality # <<>> THEN f.Quality
    ELSE IF f.Height > 0 THEN Itoa(f.Height) \o <<"p">>
    ELSE <<"u","n","k","n","o","w","n">>

\* lines 715-720
MakeFormat(f, videoURL) ==
    [Itag |-> f.Itag, Video_type |-> f.MimeType, Quality |-> QualityLabel(f),
     Url |-> videoURL]

\* the two groups joined the other way round
AllFormats_swapped(pr) == pr.adaptiveFormats \o pr.formats

\* line 674
AllFormats(pr) == pr.formats \o pr.adaptiveFormats

(***************************************************************************)
(* Get and its helpers                                                     *)
(***************************************************************************)

URL_META ==
    <<"h","t","t","p","s",":","/","/","w","w","w",".","y","o","u","t","u","b",
      "e",".","c","o","m","/","w","a","t","c","h","?","v","=">>

WatchMarker ==
    <<"y","o","u","t","u","b","e",".","c","o","m","/","w","a","t","c","h","?">>

\* url.Parse(input) as far as extractId uses it: the fragment is cut off, a
\* control character is rejected, the text after the first ? is the raw query
UrlParse(input) ==
    LET noFrag == Cut(input, "#").before IN
    IF \E i \in 1..Len(input) : input[i] = "\n"
    THEN [err |-> TRUE, rawQuery |-> <<>>]
    ELSE [err |-> FALSE, rawQuery |-> Cut(noFrag, "?").after]

\* extractId(input): the id, "" with an error
extractId(input) ==
    LET u == UrlParse(input)
        v == ValuesGet(ParseQuery(u.rawQuery).vals, <<"v">>)
    IN  IF u.err THEN [err |-> TRUE, id |-> <<>>]
        ELSE IF v # <<>> THEN [err |-> FALSE, id |-> v]
        ELSE [err |-> TRUE, id |-> <<>>]

\* the identifier is cut out of the text behind "v=" without decoding it
NormalizeId_rawText(video_id) ==
    IF Contains(video_id, WatchMarker)
    THEN LET q == Cut(Cut(video_id, "#").before, "?").after IN
         IF SubSeq(q, 1, 2) = <<"v","=">> THEN Cut(SubSeq(q, 3, Len(q)), "&").before
         ELSE <<>>
    ELSE video_id

\* lines 101-103: the identifier Get works with
NormalizeId(video_id) ==
    IF Contains(video_id, WatchMarker) THEN extractId(video_id).id ELSE video_id

EmptyPage ==
    [found |-> FALSE, valid |-> FALSE, title |-> "", formats |-> <<>>,
     adaptiveFormats |-> <<>>, jsUrl |-> FALSE]

\* The answer of the network to GET url: the site serves the video n.id with
\* the page n.page, and the videos of n.more each with its own page.
Serve(n, url) ==
    IF url = URL_META \o n.id
    THEN [doErr |-> n.doErr, status |-> n.status, body |-> n.page]
    ELSE IF \E r \in n.more : url = URL_META \o r.id
    THEN [doErr |-> n.doErr, status |-> n.status,
          body |-> (CHOOSE r \in n.more : url = URL_META \o r.id).page]
    ELSE [doErr |-> n.doErr, status |-> 404, body |-> EmptyPage]

\* only 403 is refused
StatusOk_only403(status) == status # 403

\* line 329: the status check of fetchMeta
StatusOk(status) == status = 200

\* fetchMeta(video_id): the error of ioutil.ReadAll is dropped (line 333), so
\* what was read of the body before a read error is returned as the page
fetchMeta(n, video_id) ==
    LET resp == Serve(n, URL_META \o video_id) IN
    IF resp.doErr THEN [err |-> TRUE, body |-> EmptyPage]
    ELSE IF ~StatusOk(resp.status) THEN [err |-> TRUE, body |-> EmptyPage]
    ELSE [err |-> FALSE, body |-> resp.body]

EmptyCode ==
    [empty |-> TRUE, funcName |-> <<>>, helperName |-> <<>>,
     helperDef |-> "none", funcDef |-> "none", body |-> "throws"]

\* lines 667-671: extractPlayerURL and fetchPlayerCode, errors dropped
LoadPlayerCode(n, htmlContent) ==
    IF ~htmlContent.jsUrl THEN EmptyCode
    ELSE IF n.js.doErr \/ n.js.status # 200 THEN EmptyCode
    ELSE n.js.code

EmptyVideo == [Id |-> <<>>, Title |-> "", Formats |-> <<>>]

NoLookup == [called |-> FALSE, itag |-> 0, index |-> 0, found |-> FALSE]

RECURSIVE IndexFrom(_, _, _)
\* the loop of IndexByItag from Go index i on
IndexFrom(formats, itag, i) ==
    IF i >= Len(formats) THEN [index |-> 0, found |-> FALSE]
    ELSE IF formats[i + 1].Itag = itag THEN [index |-> i, found |-> TRUE]
    ELSE IndexFrom(formats, itag, i + 1)

RECURSIVE IndexLast(_, _, _)
\* the loop without its early return: the last match wins
IndexLast(formats, itag, i) ==
    IF i >= Len(formats) THEN [index |-> 0, found |-> FALSE]
    ELSE LET later == IndexLast(formats, itag, i + 1) IN
         IF later.found THEN later
         ELSE IF formats[i + 1].Itag = itag THEN [index |-> i, found |-> TRUE]
         ELSE later

IndexByItagOf_last(v, itag) == IndexLast(v.Formats, itag, 0)

\* Video.IndexByItag(itag): the index and whether the pointer is non-nil
IndexByItagOf(v, itag) == IndexFrom(v.Formats, itag, 0)

(***************************************************************************)
(* State                                                                   *)
(***************************************************************************)

VARIABLES
    net,        \* the network: the video the site serves, and its answers
    input,      \* input[p]: the argument of Get
    pc,         \* pc[p]: "off", "start", "parse", "formats", "done"
    video_id,   \* Get's video_id after lines 101-103
    query,      \* the page fetchMeta returned
    playerCode, \* parseMeta's playerCode
    video,      \* parseMeta's video; at "done" the Video Get returned
    idx,        \* the position of parseMeta's loop in allFormats (from 1)
    err,        \* at "done": "" or the error Get returned
    chain,      \* the positions of allFormats for which decryptSignature ran
    lookup,     \* the last IndexByItag call on the returned Video
    reqs        \* reqs[p]: the requests the call has sent, in order

\* the state of Get / parseMeta / IndexByItag
getVars == <<net, input, pc, video_id, query, playerCode, video, idx, err, chain,
             lookup, reqs>>

VARIABLES
    file,       \* Download: the bytes of the output file on disk
    dl,         \* Download: its locals and the answer of the stream's server
    blob,       \* the text a locator or extractor works on
    scan,       \* the locals of the locator or extractor that is running
    vms,        \* the script contexts goja.New() has made, by handle
    att         \* att[p]: the locals of a decryptSignature call

\* the state outside Get
otherVars == <<file, dl, blob, scan, vms, att>>

vars == <<getVars, otherVars>>

Procs == {1, 2}

(***************************************************************************)
(* Actions                                                                 *)
(***************************************************************************)

\* Get, lines 100-108: normalise the argument and fetch the page
GetFetch(p) ==
    /\ pc[p] = "start"
    /\ LET id == NormalizeId(input[p])
           r  == fetchMeta(net, id)
       IN  /\ video_id' = [video_id EXCEPT ![p] = id]
           /\ query' = [query EXCEPT ![p] = r.body]
           /\ IF r.err
              THEN /\ pc' = [pc EXCEPT ![p] = "done"]
                   /\ err' = [err EXCEPT ![p] = "fetch"]
              ELSE /\ pc' = [pc EXCEPT ![p] = "parse"]
                   /\ err' = err
    /\ reqs' = [reqs EXCEPT ![p] = Append(@, "page")]
    /\ UNCHANGED <<net, input, playerCode, video, idx, chain, lookup>>
    /\ UNCHANGED otherVars

\* parseMeta, lines 634-674: the manifest, the Video, the script bundle
ParseMetaBegin(p) ==
    /\ pc[p] = "parse"
    /\ IF ~query[p].found
       THEN /\ pc' = [pc EXCEPT ![p] = "done"]
            /\ err' = [err EXCEPT ![p] = "notfound"]
            /\ UNCHANGED <<video, playerCode, idx, reqs>>
       ELSE IF ~query[p].valid
       THEN /\ pc' = [pc EXCEPT ![p] = "done"]
            /\ err' = [err EXCEPT ![p] = "malformed"]
            /\ UNCHANGED <<video, playerCode, idx, reqs>>
       ELSE /\ pc' = [pc EXCEPT ![p] = "formats"]
            /\ video' = [video EXCEPT ![p] =
                           [Id |-> video_id[p], Title |-> query[p].title,
                            Formats |-> <<>>]]
            /\ playerCode' = [playerCode EXCEPT ![p] =
                                LoadPlayerCode(net, query[p])]
            /\ reqs' = [reqs EXCEPT ![p] =
                          IF query[p].jsUrl THEN Append(@, "js") ELSE @]
            /\ idx' = [idx EXCEPT ![p] = 1]
            /\ err' = err
    /\ UNCHANGED <<net, input, video_id, query, chain, lookup>>
    /\ UNCHANGED otherVars

\* the loop without the skip of lines 700-703
ParseMetaFormat_noSkip(p) ==
    /\ pc[p] = "formats"
    /\ idx[p] <= Len(AllFormats(query[p]))
    /\ LET f == AllFormats(query[p])[idx[p]]
           r == ResolveURL(f, playerCode[p])
       IN  /\ video' = [video EXCEPT ![p].Formats = Append(@, MakeFormat(f, r.url))]
           /\ chain' = [chain EXCEPT ![p] =
                           IF r.chain THEN @ \cup {idx[p]} ELSE @]
    /\ idx' = [idx EXCEPT ![p] = @ + 1]
    /\ UNCHANGED <<net, input, pc, video_id, query, playerCode, err, lookup,
                   reqs>>
    /\ UNCHANGED otherVars

\* the Video under construction is one package-level value that every call
\* appends to
ParseMetaFormat_sharedVideo(p) ==
    /\ pc[p] = "formats"
    /\ idx[p] <= Len(AllFormats(query[p]))
    /\ LET f == AllFormats(query[p])[idx[p]]
           r == ResolveURL(f, playerCode[p])
       IN  /\ video' = [video EXCEPT ![1].Formats =
                           IF r.url = <<>> THEN @
                           ELSE Append(@, MakeFormat(f, r.url))]
           /\ chain' = [chain EXCEPT ![p] =
                           IF r.chain THEN @ \cup {idx[p]} ELSE @]
    /\ idx' = [idx EXCEPT ![p] = @ + 1]
    /\ UNCHANGED <<net, input, pc, video_id, query, playerCode, err, lookup,
                   reqs>>
    /\ UNCHANGED otherVars

\* parseMeta, lines 676-721: one iteration of the loop over allFormats
\* the bundle is fetched again for every stream the chain runs for
ParseMetaFormat_refetch(p) ==
    /\ pc[p] = "formats"
    /\ idx[p] <= Len(AllFormats(query[p]))
    /\ LET f == AllFormats(query[p])[idx[p]]
           code == IF f.URL = <<>> /\ query[p].jsUrl
                   THEN LoadPlayerCode(net, query[p]) ELSE playerCode[p]
           r == ResolveURL(f, code)
       IN  /\ video' = [video EXCEPT ![p].Formats =
                           IF r.url = <<>> THEN @
                           ELSE Append(@, MakeFormat(f, r.url))]
           /\ chain' = [chain EXCEPT ![p] =
                           IF r.chain THEN @ \cup {idx[p]} ELSE @]
           /\ reqs' = [reqs EXCEPT ![p] =
                          IF f.URL = <<>> /\ query[p].jsUrl
                          THEN Append(@, "js") ELSE @]
    /\ idx' = [idx EXCEPT ![p] = @ + 1]
    /\ UNCHANGED <<net, input, pc, video_id, query, playerCode, err, lookup>>
    /\ UNCHANGED otherVars

ParseMetaFormat(p) ==
    /\ pc[p] = "formats"
    /\ idx[p] <= Len(AllFormats(query[p]))
    /\ LET f == AllFormats(query[p])[idx[p]]
           r == ResolveURL(f, playerCode[p])
       IN  /\ video' = [video EXCEPT ![p].Formats =
                           IF r.url = <<>> THEN @
                           ELSE Append(@, MakeFormat(f, r.url))]
           /\ chain' = [chain EXCEPT ![p] =
                           IF r.chain THEN @ \cup {idx[p]} ELSE @]
    /\ idx' = [idx EXCEPT ![p] = @ + 1]
    /\ UNCHANGED <<net, input, pc, video_id, query, playerCode, err, lookup,
                   reqs>>
    /\ UNCHANGED otherVars

\* the check for an empty list is missing
NoFormats_never(v) == FALSE

\* lines 723-727: does parseMeta return the no-formats error
NoFormats(v) == Len(v.Formats) = 0

\* parseMeta, lines 723-727, and Get's return, lines 110-115
ParseMetaEnd(p) ==
    /\ pc[p] = "formats"
    /\ idx[p] > Len(AllFormats(query[p]))
    /\ pc' = [pc EXCEPT ![p] = "done"]
    /\ IF NoFormats(video[p])
       THEN /\ err' = [err EXCEPT ![p] = "noformats"]
            /\ video' = [video EXCEPT ![p] = EmptyVideo]
       ELSE UNCHANGED <<err, video>>
    /\ UNCHANGED <<net, input, video_id, query, playerCode, idx, chain, lookup,
                   reqs>>
    /\ UNCHANGED otherVars

\* main, lines 96-102: a lookup by itag on the Video Get returned
IndexByItag(p, itag) ==
    /\ pc[p] = "done"
    /\ err[p] = ""
    /\ lookup' = [lookup EXCEPT ![p] =
                    [called |-> TRUE, itag |-> itag,
                     index |-> IndexByItagOf(video[p], itag).index,
                     found |-> IndexByItagOf(video[p], itag).found]]
    /\ UNCHANGED <<net, input, pc, video_id, query, playerCode, video, idx, err,
                   chain, reqs>>
    /\ UNCHANGED otherVars

(***************************************************************************)
(* Video.Download (lines 118-196)                                          *)
(***************************************************************************)

\* os.File.Write at position pos: the bytes there are overwritten, the file
\* grows when the chunk goes past its end
WriteAt(f, pos, chunk) ==
    SubSeq(f, 1, pos) \o chunk \o SubSeq(f, pos + Len(chunk) + 1, Len(f))

\* the GET request of lines 177-182: the URL and two headers (User-Agent,
\* Referer); it carries no Range header
getReq == [range |-> FALSE, from |-> 0]

\* the body the stream's server sends for a request: the whole stream, or
\* with a Range header the bytes from that offset on
ServeStream(req, stream) ==
    IF req.range THEN SubSeq(stream, req.from + 1, Len(stream)) ELSE stream

\* lines 124-139: open the output file
DownloadOpen ==
    /\ dl.pc = "open"
    /\ IF dl.resume
       THEN /\ file' = file
            /\ dl' = [dl EXCEPT !.pc = "head", !.offset = Len(file),
                                !.pos = Len(file)]
       ELSE /\ file' = <<>>
            /\ dl' = [dl EXCEPT !.pc = "head", !.offset = 0, !.pos = 0]
    /\ UNCHANGED <<getVars, blob, scan, vms, att>>

\* lines 141-172: the HEAD request and the content length
DownloadHead ==
    /\ dl.pc = "head"
    /\ dl' = IF dl.srv.headErr THEN [dl EXCEPT !.pc = "done", !.err = "head"]
             ELSE IF dl.srv.headStatus = 403
             THEN [dl EXCEPT !.pc = "done", !.err = "forbidden"]
             ELSE IF ~dl.srv.hasLength
             THEN [dl EXCEPT !.pc = "done", !.err = "nolength"]
             ELSE [dl EXCEPT !.pc = "get", !.length = Len(dl.stream)]
    /\ UNCHANGED <<getVars, file, blob, scan, vms, att>>

\* lines 174-188: the GET request
DownloadGet ==
    /\ dl.pc = "get"
    /\ dl' = IF dl.srv.getErr THEN [dl EXCEPT !.pc = "done", !.err = "get"]
             ELSE [dl EXCEPT !.pc = "copy",
                             !.body = ServeStream(getReq, dl.stream)]
    /\ UNCHANGED <<getVars, file, blob, scan, vms, att>>

\* line 190, io.Copy: the next chunk of the body is written at the file
\* position, or the read of the body fails
DownloadCopy ==
    /\ dl.pc = "copy"
    /\ dl.sent < Len(dl.body)
    /\ IF dl.srv.breakAt = dl.sent
       THEN /\ dl' = [dl EXCEPT !.pc = "done", !.err = "copy"]
            /\ file' = file
       ELSE \E n \in 1..(Len(dl.body) - dl.sent) :
              /\ dl.srv.breakAt \notin (dl.sent + 1)..(dl.sent + n - 1)
              /\ file' = WriteAt(file, dl.pos,
                                 SubSeq(dl.body, dl.sent + 1, dl.sent + n))
              /\ dl' = [dl EXCEPT !.sent = @ + n, !.pos = @ + n]
    /\ UNCHANGED <<getVars, blob, scan, vms, att>>

\* lines 190-195: the body is at its end, Download returns nil
DownloadEnd ==
    /\ dl.pc = "copy"
    /\ dl.sent = Len(dl.body)
    /\ dl' = [dl EXCEPT !.pc = "done"]
    /\ UNCHANGED <<getVars, file, blob, scan, vms, att>>

(***************************************************************************)
(* Inputs                                                                  *)
(***************************************************************************)

\* the number of stream descriptors of a manifest (both groups together)
MaxFormats == 2

UrlBase == <<"h","t","t","p",":","/","/","x",".","t","e","s","t","/">>

\* url=http%3A%2F%2Fx.test%2F
CipherBase ==
    <<"u","r","l","=","h","t","t","p","%","3","A","%","2","F","%","2","F","x",
      ".","t","e","s","t","%","2","F">>

Mp4 == <<"v","i","d","e","o","/","m","p","4">>
Webm == <<"v","i","d","e","o","/","w","e","b","m">>
Hd == <<"h","d","7","2","0">>

Desc(itag, url, cipher, mime, quality, height) ==
    [Itag |-> itag, URL |-> url, SignatureCipher |-> cipher, MimeType |-> mime,
     Quality |-> quality, Height |-> height]

\* a direct URL
DDirect == Desc(18, UrlBase \o <<"d">>, <<>>, Mp4, Hd, 720)
\* url=http%3A%2F%2Fx.test%2Fv&s=AABB&sp=sig
DCipher ==
    Desc(18, <<>>,
         CipherBase \o <<"v","&","s","=","A","A","B","B","&","s","p","=","s","i","g">>,
         Mp4, <<>>, 360)
\* url=http%3A%2F%2Fx.test%2Fw : a cipher without a signature
DNoSig == Desc(22, <<>>, CipherBase \o <<"w">>, Webm, <<>>, 0)
\* url=http%3A%2F%2Fx.test%2Fv%3Fa%3D1&s=AB : no sp, a base URL with a query
DQuery ==
    Desc(22, <<>>,
         CipherBase \o <<"v","%","3","F","a","%","3","D","1","&","s","=","A","B">>,
         Webm, <<>>, -1)
\* s=AB&sp=sig : a cipher without url
DNoUrl ==
    Desc(43, <<>>, <<"s","=","A","B","&","s","p","=","s","i","g">>, Webm, Hd, 0)
\* url=http%3A%2F%2Fx.test%2Fv&s=A%ZB : a cipher url.ParseQuery rejects
DBadEsc ==
    Desc(43, <<>>, CipherBase \o <<"v","&","s","=","A","%","Z","B">>, Webm, <<>>, 0)
\* url=http%3A%2F%2Fx.test%2Fv&s=A%5CB&sp= : a backslash in the signature
DBackslash ==
    Desc(22, <<>>,
         CipherBase \o <<"v","&","s","=","A","%","5","C","B","&","s","p","=">>,
         Mp4, Hd, 0)
\* url=http%3A%2F%2Fx.test%2Fv&s=A%22B&sp=sig : a quote in the signature
DQuote ==
    Desc(18, <<>>,
         CipherBase \o <<"v","&","s","=","A","%","2","2","B","&","s","p","=","s","i","g">>,
         Mp4, <<>>, 1080)
\* neither a URL nor a cipher
DEmpty == Desc(43, <<>>, <<>>, Mp4, Hd, 720)
\* a direct URL and a cipher
DBoth == Desc(22, UrlBase \o <<"b">>, DCipher.SignatureCipher, Webm, <<>>, 720)

Descs ==
    {DDirect, DCipher, DNoSig, DQuery, DNoUrl, DBadEsc, DBackslash, DQuote,
     DEmpty, DBoth}

\* the manifests: n progressive descriptors and m adaptive ones
Manifests ==
    UNION {UNION {[1..n -> Descs] \X [1..m -> Descs] : m \in 0..(MaxFormats - n)} :
              n \in 0..MaxFormats}

FewManifests ==
    {<<<<DDirect, DCipher>>, <<>>>>, <<<<DCipher>>, <<DQuery>>>>,
     <<<<DBackslash>>, <<DNoSig>>>>, <<<<>>, <<DQuote, DCipher>>>>,
     <<<<DDirect, DCipher>>, <<DNoSig>>>>, <<<<DNoUrl, DBoth>>, <<DQuery, DEmpty>>>>}

PageOf(m, js) ==
    [found |-> TRUE, valid |-> TRUE, title |-> "t", formats |-> m[1],
     adaptiveFormats |-> m[2], jsUrl |-> js]

Bundle(fn, hn, hd, fd, body) ==
    [empty |-> FALSE, funcName |-> fn, helperName |-> hn, helperDef |-> hd,
     funcDef |-> fd, body |-> body]

Fn == <<"X","y">>
Hp == <<"H","p">>

BundleOk == Bundle(Fn, Hp, "ok", "ok", "helper_reverse")
BundleNoLocator == Bundle(<<>>, <<>>, "none", "none", "reverse")

\* one bundle for each way the chain ends
Bundles ==
    {BundleOk, BundleNoLocator,
     Bundle(Fn, <<>>, "none", "ok", "reverse"),
     Bundle(Fn, Hp, "ok", "none", "helper_reverse"),
     Bundle(Fn, Hp, "ok", "broken", "helper_reverse"),
     Bundle(Fn, Hp, "broken", "ok", "helper_reverse"),
     Bundle(Fn, Hp, "none", "ok", "helper_reverse"),
     Bundle(Fn, Hp, "none", "ok", "reverse"),
     Bundle(Fn, Hp, "ok", "ok", "throws"),
     Bundle(Fn, Hp, "ok", "ok", "undefined")}

JsOk(code) == [doErr |-> FALSE, status |-> 200, code |-> code]

\* the answers to the request for the script bundle
JsAnswers ==
    {JsOk(b) : b \in Bundles} \cup
    {JsOk(EmptyCode), [doErr |-> TRUE, status |-> 0, code |-> EmptyCode],
     [doErr |-> FALSE, status |-> 404, code |-> BundleOk]}

IdA == <<"a","-","b">>
IdB == <<"x","y">>

WatchHost ==
    <<"h","t","t","p","s",":","/","/","w","w","w",".","y","o","u","t","u","b",
      "e",".","c","o","m","/","w","a","t","c","h","?">>

\* watch-page URLs, each with the value of its query parameter v
WatchCases ==
    {[url |-> WatchHost \o <<"v","=","a","-","b">>, v |-> IdA],
     [url |-> WatchHost \o <<"v","=","a","%","2","D","b">>, v |-> IdA],
     [url |-> WatchHost \o <<"t","=","1","&","v","=","a","-","b">>, v |-> IdA],
     [url |-> WatchHost \o <<"v","=","a","-","b","&","t","=","1">>, v |-> IdA],
     [url |-> WatchHost \o <<"v","=","a","-","b","#","t">>, v |-> IdA],
     [url |-> WatchMarker \o <<"v","=","x","y">>, v |-> IdB],
     [url |-> WatchHost \o <<"v","=","%","7","8","y">>, v |-> IdB],
     [url |-> WatchHost \o <<"v","=">>, v |-> <<>>]}

Net(id, doErr, status, readErr, page, js) ==
    [id |-> id, doErr |-> doErr, status |-> status, readErr |-> readErr,
     page |-> page, js |-> js, more |-> {}]

GoodPage == PageOf(<<<<DDirect, DCipher>>, <<DNoSig>>>>, TRUE)

\* the network answers in which the page arrives whole with status 200
NetsOk ==
    {Net(IdA, FALSE, 200, FALSE, PageOf(m, TRUE), JsOk(b)) :
        m \in Manifests, b \in {BundleOk, BundleNoLocator}} \cup
    {Net(IdA, FALSE, 200, FALSE, PageOf(m, FALSE), JsOk(BundleOk)) :
        m \in Manifests} \cup
    {Net(IdA, FALSE, 200, FALSE, PageOf(m, TRUE), js) :
        m \in FewManifests, js \in JsAnswers} \cup
    {Net(IdA, FALSE, 200, FALSE, [GoodPage EXCEPT !.found = FALSE], JsOk(BundleOk)),
     Net(IdA, FALSE, 200, FALSE, [GoodPage EXCEPT !.valid = FALSE], JsOk(BundleOk))}

\* the answers in which the request for the page fails: no answer, a status
\* other than 200 (the body is a whole page all the same), or a body that
\* breaks off (before the manifest ends, or after it and before the script
\* path)
NetsFailing ==
    {Net(IdA, TRUE, 0, FALSE, EmptyPage, JsOk(BundleOk))} \cup
    {Net(IdA, FALSE, st, FALSE, GoodPage, JsOk(BundleOk)) : st \in {403, 404, 500}} \cup
    {Net(IdA, FALSE, 200, TRUE, [GoodPage EXCEPT !.found = FALSE], JsOk(BundleOk)),
     Net(IdA, FALSE, 200, TRUE, [GoodPage EXCEPT !.jsUrl = FALSE], JsOk(BundleOk))}

Itags == {18, 22, 43, 99}

(***************************************************************************)
(* Specifications                                                          *)
(***************************************************************************)

\* nothing but Get is running
InitOthers ==
    /\ file = <<>>
    /\ dl = [pc |-> "off"]
    /\ blob = <<>>
    /\ scan = [pc |-> "off"]
    /\ vms = <<>>
    /\ att = [p \in Procs |-> [pc |-> "off"]]

InitLocals ==
    /\ InitOthers
    /\ video_id = [p \in Procs |-> <<>>]
    /\ query = [p \in Procs |-> EmptyPage]
    /\ playerCode = [p \in Procs |-> EmptyCode]
    /\ video = [p \in Procs |-> EmptyVideo]
    /\ idx = [p \in Procs |-> 0]
    /\ err = [p \in Procs |-> ""]
    /\ chain = [p \in Procs |-> {}]
    /\ lookup = [p \in Procs |-> NoLookup]
    /\ reqs = [p \in Procs |-> <<>>]

\* one call of Get
Init ==
    /\ InitLocals
    /\ pc = [p \in Procs |-> IF p = 1 THEN "start" ELSE "off"]
    /\ \/ /\ net \in NetsOk \cup NetsFailing
          /\ input = [p \in Procs |-> IF p = 1 THEN IdA ELSE <<>>]
       \/ /\ net \in {Net(IdA, FALSE, 200, FALSE, GoodPage, JsOk(BundleOk))}
          /\ \E i \in {c.url : c \in WatchCases} \cup
                      {IdB, WatchMarker \o <<"t","=","1">>,
                       WatchMarker \o <<"\n","v","=","x","y">>} :
                input = [p \in Procs |-> IF p = 1 THEN i ELSE <<>>]

Next ==
    \E p \in Procs :
        \/ GetFetch(p)
        \/ ParseMetaBegin(p)
        \/ ParseMetaFormat(p)
        \/ ParseMetaEnd(p)
        \/ \E itag \in Itags : IndexByItag(p, itag)

Spec == Init /\ [][Next]_vars

\* two calls of Get: one with a watch-page URL, one with the value of its v
InitPair ==
    /\ InitLocals
    /\ pc = [p \in Procs |-> "start"]
    /\ \E c \in WatchCases : input = [p \in Procs |-> IF p = 1 THEN c.url ELSE c.v]
    /\ \E id \in {IdA, IdB, <<>>} :
          net \in {Net(id, FALSE, 200, FALSE, GoodPage, JsOk(BundleOk)),
                   Net(id, FALSE, 403, FALSE, GoodPage, JsOk(BundleOk)),
                   Net(id, FALSE, 200, FALSE,
                       PageOf(<<<<DNoUrl>>, <<DEmpty>>>>, TRUE), JsOk(BundleOk))}

SpecPair == InitPair /\ [][Next]_vars

\* the pages of two videos, for calls of Get that run side by side
PagesA == {GoodPage, PageOf(<<<<DCipher>>, <<DQuery>>>>, FALSE)}

PagesB ==
    {[PageOf(<<<<DQuery>>, <<DEmpty, DBoth>>>>, js) EXCEPT !.title = "u"] :
        js \in BOOLEAN} \cup
    {[PageOf(<<<<DNoUrl>>, <<DEmpty>>>>, TRUE) EXCEPT !.title = "u"],
     [PageOf(<<<<DCipher, DDirect>>, <<>>>>, TRUE) EXCEPT !.title = "u"]}

\* two calls of Get for different videos
InitTwo ==
    /\ InitLocals
    /\ pc = [p \in Procs |-> "start"]
    /\ input = [p \in Procs |-> IF p = 1 THEN IdA ELSE IdB]
    /\ \E pa \in PagesA, pb \in PagesB, b \in {BundleOk, BundleNoLocator} :
          net = [Net(IdA, FALSE, 200, FALSE, pa, JsOk(b))
                    EXCEPT !.more = {[id |-> IdB, page |-> pb]}]

SpecTwo == InitTwo /\ [][Next]_vars

\* no call of Get
InitGetOff ==
    /\ video_id = [p \in Procs |-> <<>>]
    /\ query = [p \in Procs |-> EmptyPage]
    /\ playerCode = [p \in Procs |-> EmptyCode]
    /\ video = [p \in Procs |-> EmptyVideo]
    /\ idx = [p \in Procs |-> 0]
    /\ err = [p \in Procs |-> ""]
    /\ chain = [p \in Procs |-> {}]
    /\ lookup = [p \in Procs |-> NoLookup]
    /\ reqs = [p \in Procs |-> <<>>]
    /\ pc = [p \in Procs |-> "off"]
    /\ input = [p \in Procs |-> <<>>]
    /\ net = Net(<<>>, TRUE, 0, FALSE, EmptyPage, JsOk(EmptyCode))

\* the length of a stream, in bytes
MaxStream == 3

Bytes == {"a", "b"}

Streams == UNION {[1..n -> Bytes] : n \in 0..MaxStream}

\* the answers of the stream's server; breakAt is the number of bytes after
\* which the body breaks off (-1: it does not)
SrvOk ==
    [headErr |-> FALSE, headStatus |-> 200, hasLength |-> TRUE, getErr |-> FALSE,
     breakAt |-> -1]

Srvs ==
    {SrvOk, [SrvOk EXCEPT !.headErr = TRUE], [SrvOk EXCEPT !.headStatus = 403],
     [SrvOk EXCEPT !.headStatus = 404], [SrvOk EXCEPT !.hasLength = FALSE],
     [SrvOk EXCEPT !.getErr = TRUE], [SrvOk EXCEPT !.breakAt = 1]}

\* one call of Download: with option.Resume on a file that holds the first k
\* bytes of the stream, or without it on a file with whatever it held
InitDownload ==
    /\ InitGetOff
    /\ blob = <<>>
    /\ scan = [pc |-> "off"]
    /\ vms = <<>>
    /\ att = [p \in Procs |-> [pc |-> "off"]]
    /\ \E stream \in Streams, srv \in Srvs, resume \in BOOLEAN :
          /\ \/ \E k \in 0..Len(stream) : file = SubSeq(stream, 1, k)
             \/ ~resume /\ file = <<"z", "z", "z", "z", "z">>
          /\ dl = [pc |-> "open", resume |-> resume, stream |-> stream,
                   srv |-> srv, before |-> file, offset |-> 0, pos |-> 0,
                   length |-> 0, body |-> <<>>, sent |-> 0, err |-> ""]

NextDownload ==
    \/ DownloadOpen
    \/ DownloadHead
    \/ DownloadGet
    \/ DownloadCopy
    \/ DownloadEnd

SpecDownload == InitDownload /\ [][NextDownload]_vars

(***************************************************************************)
(* parseMeta, lines 636-645, on the text of the page: the manifest         *)
(* expression and json.Unmarshal                                           *)
(***************************************************************************)

\* `var ytInitialPlayerResponse = (\{.+?\});`
ManifestRe ==
    Lit(<<"v","a","r"," ","y","t","I","n","i","t","i","a","l","P","l","a",
          "y","e","r","R","e","s","p","o","n","s","e"," ","="," ">>)
    \o <<Open(1)>> \o Lit(<<"{">>) \o <<DotPlusLazy>> \o Lit(<<"}">>) \o <<Close(1)>>
    \o Lit(<<";">>)

\* the character at position pos, "" behind the end
At(s, pos) == IF pos < Len(s) THEN s[pos + 1] ELSE ""

RECURSIVE SkipWs(_, _)
SkipWs(s, pos) ==
    IF At(s, pos) \in {" ", "\t", "\n", "\r"} THEN SkipWs(s, pos + 1) ELSE pos

RECURSIVE JsonStringEnd(_, _)
\* encoding/json: the end of the string whose opening quote is before pos,
\* -1 when it is no string
JsonStringEnd(s, pos) ==
    LET c == At(s, pos) IN
    IF c = "" THEN -1
    ELSE IF c = "\"" THEN pos + 1
    ELSE IF c = "\\"
         THEN IF At(s, pos + 1) \in {"\"", "\\", "/", "b", "f", "n", "r", "t"}
              THEN JsonStringEnd(s, pos + 2)
              ELSE -1
    ELSE IF c \in {"\n", "\t", "\r", "\f"} THEN -1
    ELSE JsonStringEnd(s, pos + 1)

RECURSIVE JsonDigitsEnd(_, _)
JsonDigitsEnd(s, pos) ==
    IF At(s, pos) \in Digits THEN JsonDigitsEnd(s, pos + 1) ELSE pos

RECURSIVE JsonValueEnd(_, _)
RECURSIVE JsonMembersEnd(_, _)
RECURSIVE JsonElementsEnd(_, _)
\* encoding/json: the end of the value that starts at pos (white space
\* skipped), -1 when there is none
JsonValueEnd(s, pos0) ==
    LET pos == SkipWs(s, pos0)
        c   == At(s, pos)
    IN  IF c = "{"
        THEN IF At(s, SkipWs(s, pos + 1)) = "}" THEN SkipWs(s, pos + 1) + 1
             ELSE JsonMembersEnd(s, SkipWs(s, pos + 1))
        ELSE IF c = "["
        THEN IF At(s, SkipWs(s, pos + 1)) = "]" THEN SkipWs(s, pos + 1) + 1
             ELSE JsonElementsEnd(s, pos + 1)
        ELSE IF c = "\"" THEN JsonStringEnd(s, pos + 1)
        ELSE IF c \in Digits \ {"0"} THEN JsonDigitsEnd(s, pos)
        ELSE IF c = "0" THEN pos + 1
        ELSE IF HasAt(s, pos, <<"t","r","u","e">>) THEN pos + 4
        ELSE IF HasAt(s, pos, <<"n","u","l","l">>) THEN pos + 4
        ELSE IF HasAt(s, pos, <<"f","a","l","s","e">>) THEN pos + 5
        ELSE -1

\* the members of an object, from the key at pos to the closing brace
JsonMembersEnd(s, pos) ==
    IF At(s, pos) # "\"" THEN -1
    ELSE LET k == JsonStringEnd(s, pos + 1)
             c == SkipWs(s, k)
             v == JsonValueEnd(s, c + 1)
             e == SkipWs(s, v)
         IN  IF k < 0 \/ At(s, c) # ":" THEN -1
             ELSE IF v < 0 THEN -1
             ELSE IF At(s, e) = "," THEN JsonMembersEnd(s, SkipWs(s, e + 1))
             ELSE IF At(s, e) = "}" THEN e + 1
             ELSE -1

\* the elements of an array, from the element at pos to the closing bracket
JsonElementsEnd(s, pos) ==
    LET v == JsonValueEnd(s, pos)
        e == SkipWs(s, v)
    IN  IF v < 0 THEN -1
        ELSE IF At(s, e) = "," THEN JsonElementsEnd(s, e + 1)
        ELSE IF At(s, e) = "]" THEN e + 1
        ELSE -1

\* json.Unmarshal(data, &pr): does it return no error.  (The texts of the
\* modelled pages give no field of playerResponse a value of another type,
\* so the syntax alone decides.)
Unmarshal(data) ==
    LET e == JsonValueEnd(data, 0) IN
    e >= 0 /\ SkipWs(data, e) = Len(data)

\* parseMeta, lines 636-640: the manifest expression on the page
ParseMetaFind ==
    /\ scan.pc = "find"
    /\ LET matches == Find(ManifestRe, blob) IN
       IF ~matches.ok
       THEN scan' = [scan EXCEPT !.pc = "done", !.err = "notfound"]
       ELSE scan' = [scan EXCEPT !.pc = "unmarshal",
                                 !.captured = Group(blob, matches, 1)]
    /\ UNCHANGED <<getVars, file, dl, blob, vms, att>>

\* parseMeta, lines 642-645: json.Unmarshal of the captured text
ParseMetaUnmarshal ==
    /\ scan.pc = "unmarshal"
    /\ scan' = IF Unmarshal(scan.captured) THEN [scan EXCEPT !.pc = "done"]
               ELSE [scan EXCEPT !.pc = "done", !.err = "malformed"]
    /\ UNCHANGED <<getVars, file, dl, blob, vms, att>>

\* the texts a page writes behind the marker, each with what it is: valid
\* tells whether it is a JSON object
ManifestTexts ==
    {[text |-> <<"{","\"","a","\"",":","\"","b","\"","}">>, valid |-> TRUE],
     [text |-> <<"{","\"","a","\"",":","{","\"","b","\"",":","\"","c","\"",
                 "}","}">>, valid |-> TRUE],
     [text |-> <<"{","\"","a","\"",":"," ","\"","b","\""," ","}">>, valid |-> TRUE],
     [text |-> <<"{","\"","n","\"",":","1",",","\"","l","\"",":","[","2",
                 ",","{","}","]","}">>, valid |-> TRUE],
     [text |-> <<"{","\"","t","\"",":","\"","x","}",";","y","\"","}">>, valid |-> TRUE],
     [text |-> <<"{","\"","a","\"",":","\n","\"","b","\"","}">>, valid |-> TRUE],
     [text |-> <<"{","}">>, valid |-> TRUE],
     [text |-> <<"{","\"","a","\"",":","b","}">>, valid |-> FALSE],
     [text |-> <<"{","\"","a","\"",":","\"","b","\"",",","}">>, valid |-> FALSE],
     [text |-> <<"{","\"","a","\"","}">>, valid |-> FALSE]}

Markers ==
    {[text |-> <<"v","a","r"," ","y","t","I","n","i","t","i","a","l","P",
                 "l","a","y","e","r","R","e","s","p","o","n","s","e"," ",
                 "="," ">>, marker |-> TRUE],
     [text |-> <<"v","a","r"," ","y","t","I","n","i","t","i","a","l","D",
                 "a","t","a"," ","="," ">>, marker |-> FALSE],
     [text |-> <<>>, marker |-> FALSE]}

\* the pages: markup, an assignment, the statement separator, markup
InitManifest ==
    /\ InitGetOff
    /\ file = <<>>
    /\ dl = [pc |-> "off"]
    /\ vms = <<>>
    /\ att = [p \in Procs |-> [pc |-> "off"]]
    /\ \E before \in {<<>>, <<"<","s","c","r","i","p","t",">">>},
          m \in Markers,
          t \in ManifestTexts,
          after \in {<<>>, <<"<","/","s","c","r","i","p","t",">">>, <<"v","a","r"," ","x"," ","="," ",
                                          "{","}",";">>} :
          /\ blob = before \o m.text \o t.text \o <<";">> \o after
          /\ scan = [pc |-> "find", marker |-> m.marker, object |-> t.text,
                     valid |-> t.valid, captured |-> <<>>, err |-> ""]

NextManifest == ParseMetaFind \/ ParseMetaUnmarshal

SpecManifest == InitManifest /\ [][NextManifest]_vars

(***************************************************************************)
(* extractFullDecryptFunction (lines 500-553), one loop iteration a step   *)
(***************************************************************************)

\* line 502: `%s=function\([a-zA-Z0-9]+\)\{` with the quoted function name
FuncStartRe(funcName) ==
    Lit(funcName) \o Lit(<<"=","f","u","n","c","t","i","o","n","(">>) \o <<Many(Alnum, 1)>> \o Lit(<<")","{">>)

\* the locals of a scan before its loop: i is the Go index of the character
\* the loop looks at next (expect and lacks say what the blob holds, see
\* FuncCases)
ScanLocals(name, expect, lacks) ==
    [pc |-> "off", name |-> name, expect |-> expect, lacks |-> lacks,
     start |-> 0, i |-> 0,
     braceCount |-> 0, inString |-> FALSE, escapeNext |-> FALSE,
     stringChar |-> "", match |-> <<>>, result |-> <<>>, err |-> ""]

\* every quote character opens or closes a string, whichever kind opened it
FuncScanChar_anyQuote(st, c) ==
    IF st.escapeNext THEN [st EXCEPT !.escapeNext = FALSE]
    ELSE IF c = "\\" THEN [st EXCEPT !.escapeNext = TRUE]
    ELSE IF c = "\"" \/ c = "'" THEN [st EXCEPT !.inString = ~@]
    ELSE IF ~st.inString /\ c = "{" THEN [st EXCEPT !.braceCount = @ + 1]
    ELSE IF ~st.inString /\ c = "}" THEN [st EXCEPT !.braceCount = @ - 1]
    ELSE st

\* lines 517-543: what one character does to the locals of the scan
FuncScanChar(st, c) ==
    IF st.escapeNext THEN [st EXCEPT !.escapeNext = FALSE]
    ELSE IF c = "\\" THEN [st EXCEPT !.escapeNext = TRUE]
    ELSE IF c = "\"" \/ c = "'"
         THEN IF ~st.inString THEN [st EXCEPT !.inString = TRUE, !.stringChar = c]
              ELSE IF c = st.stringChar THEN [st EXCEPT !.inString = FALSE]
              ELSE st
    ELSE IF ~st.inString /\ c = "{" THEN [st EXCEPT !.braceCount = @ + 1]
    ELSE IF ~st.inString /\ c = "}" THEN [st EXCEPT !.braceCount = @ - 1]
    ELSE st

\* lines 501-514: the start of the definition
ExtractFuncStart ==
    /\ scan.pc = "fstart"
    /\ LET startIdx == Find(FuncStartRe(scan.name), blob) IN
       IF ~startIdx.ok
       THEN scan' = [scan EXCEPT !.pc = "done", !.err = "nostart"]
       ELSE scan' = [scan EXCEPT !.pc = "floop", !.start = startIdx.from,
                                 !.i = startIdx.to - 1]
    /\ UNCHANGED <<getVars, file, dl, blob, vms, att>>

\* lines 516-550: one iteration of the loop
ExtractFuncStep ==
    /\ scan.pc = "floop"
    /\ scan.i < Len(blob)
    /\ LET c  == blob[scan.i + 1]
           st == FuncScanChar(scan, c)
       IN  IF st.braceCount = 0 /\ st.braceCount # scan.braceCount /\ c = "}"
           THEN scan' = [st EXCEPT !.pc = "done",
                                   !.result = <<"v","a","r"," ">>
                                              \o SubSeq(blob, scan.start + 1, scan.i + 1)
                                              \o <<";">>]
           ELSE scan' = [st EXCEPT !.i = @ + 1]
    /\ UNCHANGED <<getVars, file, dl, blob, vms, att>>

\* line 552: the blob ended before the braces balanced
ExtractFuncFail ==
    /\ scan.pc = "floop"
    /\ scan.i >= Len(blob)
    /\ scan' = [scan EXCEPT !.pc = "done", !.err = "incomplete"]
    /\ UNCHANGED <<getVars, file, dl, blob, vms, att>>

\* blobs with the definition of Xy in them, each with the text of that
\* definition from its name to its closing brace (expect; "" when the blob
\* holds no whole definition) and what it lacks then (lacks)
FuncCases ==
    {[blob |-> <<"X","y","=","f","u","n","c","t","i","o","n","(","a",")",
                 "{","a","=","a",".","s","p","l","i","t","(","\"","\"",")",
                 ";","r","e","t","u","r","n"," ","a",".","j","o","i","n",
                 "(","\"","\"",")","}",";","H","p","=","{","}">>,
      expect |-> <<"X","y","=","f","u","n","c","t","i","o","n","(","a",")",
                   "{","a","=","a",".","s","p","l","i","t","(","\"","\"",
                   ")",";","r","e","t","u","r","n"," ","a",".","j","o","i",
                   "n","(","\"","\"",")","}">>,
      lacks |-> ""],
     [blob |-> <<"q","=","{","}",";","X","y","=","f","u","n","c","t","i",
                 "o","n","(","a","b","1",")","{","i","f","(","a","b","1",
                 ")","{","a","b","1","=","{","}","}","r","e","t","u","r",
                 "n"," ","a","b","1","}",";","z","(",")">>,
      expect |-> <<"X","y","=","f","u","n","c","t","i","o","n","(","a","b",
                   "1",")","{","i","f","(","a","b","1",")","{","a","b","1",
                   "=","{","}","}","r","e","t","u","r","n"," ","a","b","1",
                   "}">>, lacks |-> ""],
     [blob |-> <<"X","y","=","f","u","n","c","t","i","o","n","(","a",")",
                 "{","r","e","t","u","r","n"," ","\"","}","\"","}",";","y",
                 "=","{","}">>,
      expect |-> <<"X","y","=","f","u","n","c","t","i","o","n","(","a",")",
                   "{","r","e","t","u","r","n"," ","\"","}","\"","}">>, lacks |-> ""],
     [blob |-> <<"X","y","=","f","u","n","c","t","i","o","n","(","a",")",
                 "{","r","e","t","u","r","n"," ","\"","\\","\"","}","\"",
                 "+","'","{","'","}",";","x">>,
      expect |-> <<"X","y","=","f","u","n","c","t","i","o","n","(","a",")",
                   "{","r","e","t","u","r","n"," ","\"","\\","\"","}","\"",
                   "+","'","{","'","}">>, lacks |-> ""],
     [blob |-> <<"X","y","=","f","u","n","c","t","i","o","n","(","a",")",
                 "{","r","e","t","u","r","n"," ","\"","'","}","\"","+","'",
                 "\"","{","{","'","}",";","y","=","{","}">>,
      expect |-> <<"X","y","=","f","u","n","c","t","i","o","n","(","a",")",
                   "{","r","e","t","u","r","n"," ","\"","'","}","\"","+",
                   "'","\"","{","{","'","}">>, lacks |-> ""],
     [blob |-> <<"X","y","=","f","u","n","c","t","i","o","n","(","a",")",
                 "{","r","e","t","u","r","n"," ","'","\\","\\","'","}","}">>,
      expect |-> <<"X","y","=","f","u","n","c","t","i","o","n","(","a",")",
                   "{","r","e","t","u","r","n"," ","'","\\","\\","'","}">>, lacks |-> ""],
     [blob |-> <<"Z","z","=","f","u","n","c","t","i","o","n","(","a",")",
                 "{","r","e","t","u","r","n"," ","a","}",";","X","y","=","1">>, expect |-> <<>>,
      lacks |-> "nostart"],
     [blob |-> <<"X","y","=","f","u","n","c","t","i","o","n","(",")","{",
                 "r","e","t","u","r","n"," ","1","}">>, expect |-> <<>>, lacks |-> "nostart"],
     [blob |-> <<"X","y","=","f","u","n","c","t","i","o","n","(","a",")",
                 "{","i","f","(","a",")","{","r","e","t","u","r","n"," ",
                 "a","}">>, expect |-> <<>>,
      lacks |-> "incomplete"],
     [blob |-> <<"X","y","=","f","u","n","c","t","i","o","n","(","a",")",
                 "{","r","e","t","u","r","n"," ","\"","}">>, expect |-> <<>>,
      lacks |-> "incomplete"]}

\* nothing but an extractor is running
InitScanOnly ==
    /\ InitGetOff
    /\ file = <<>>
    /\ dl = [pc |-> "off"]
    /\ vms = <<>>
    /\ att = [p \in Procs |-> [pc |-> "off"]]

\* one call of extractFullDecryptFunction(blob, "Xy")
InitExtractFunc ==
    /\ InitScanOnly
    /\ \E c \in FuncCases :
          /\ blob = c.blob
          /\ scan = [ScanLocals(Fn, c.expect, c.lacks) EXCEPT !.pc = "fstart"]

NextExtractFunc == ExtractFuncStart \/ ExtractFuncStep \/ ExtractFuncFail

SpecExtractFunc == InitExtractFunc /\ [][NextExtractFunc]_vars

(***************************************************************************)
(* extractHelperObject (lines 422-497), one loop iteration a step          *)
(***************************************************************************)

\* lines 428-432: the three expressions, with the quoted helper name
HelperRes(helperName) ==
    <<Lit(<<"v","a","r"," ">>) \o Lit(helperName) \o Lit(<<"=","{">>) \o <<ManyNot({"}"})>> \o Lit(<<"}">>),
      Lit(helperName) \o Lit(<<"=","{">>) \o <<ManyNot({"}"})>> \o Lit(<<"}">>),
      Lit(<<"v","a","r"," ">>) \o Lit(helperName) \o Lit(<<"=","{">>) \o <<ManyNot({";"})>> \o Lit(<<"}",";">>)>>

\* line 445: `(var )?%s=\{`
HelperStartRe(helperName) == <<Opt(<<"v","a","r"," ">>)>> \o Lit(helperName) \o Lit(<<"=","{">>)

RECURSIVE FirstMatch(_, _, _)
\* lines 434-441: the text the first matching expression of res[k..] matches
FirstMatch(res, s, k) ==
    IF k > Len(res) THEN <<>>
    ELSE IF Find(res[k], s).ok THEN Matched(s, Find(res[k], s))
    ELSE FirstMatch(res, s, k + 1)

\* lines 456-483: what one character does to the locals of the scan
HelperScanChar(st, c) ==
    IF st.escapeNext THEN [st EXCEPT !.escapeNext = FALSE]
    ELSE IF c = "\\" THEN [st EXCEPT !.escapeNext = TRUE]
    ELSE IF c = "\"" \/ c = "'" THEN [st EXCEPT !.inString = ~@]
    ELSE IF ~st.inString /\ c = "{" THEN [st EXCEPT !.braceCount = @ + 1]
    ELSE IF ~st.inString /\ c = "}" THEN [st EXCEPT !.braceCount = @ - 1]
    ELSE st

\* lines 423-441: no helper name, or the expressions in their order
ExtractHelperPatterns ==
    /\ scan.pc = "hpatterns"
    /\ IF scan.name = <<>> THEN scan' = [scan EXCEPT !.pc = "done"]
       ELSE LET match == FirstMatch(HelperRes(scan.name), blob, 1) IN
            IF match # <<>> THEN scan' = [scan EXCEPT !.pc = "hend", !.match = match]
            ELSE scan' = [scan EXCEPT !.pc = "hscan"]
    /\ UNCHANGED <<getVars, file, dl, blob, vms, att>>

\* lines 443-453: the start of the object, looked for by hand
ExtractHelperScanStart ==
    /\ scan.pc = "hscan"
    /\ LET startIdx == Find(HelperStartRe(scan.name), blob) IN
       IF ~startIdx.ok THEN scan' = [scan EXCEPT !.pc = "hend"]
       ELSE scan' = [scan EXCEPT !.pc = "hloop", !.start = startIdx.from,
                                 !.i = startIdx.to - 1]
    /\ UNCHANGED <<getVars, file, dl, blob, vms, att>>

\* lines 455-484: one iteration of the loop, or its end at the end of the blob
ExtractHelperStep ==
    /\ scan.pc = "hloop"
    /\ IF scan.i >= Len(blob) THEN scan' = [scan EXCEPT !.pc = "hend"]
       ELSE LET c  == blob[scan.i + 1]
                st == HelperScanChar(scan, c)
            IN  IF st.braceCount = 0 /\ st.braceCount # scan.braceCount /\ c = "}"
                THEN scan' = [st EXCEPT !.pc = "hend",
                                        !.match = SubSeq(blob, scan.start + 1,
                                                         scan.i + 1)]
                ELSE scan' = [st EXCEPT !.i = @ + 1]
    /\ UNCHANGED <<getVars, file, dl, blob, vms, att>>

\* lines 488-496: the error, or the fragment with its terminator
ExtractHelperEnd ==
    /\ scan.pc = "hend"
    /\ scan' = IF scan.match = <<>> THEN [scan EXCEPT !.pc = "done", !.err = "nohelper"]
               ELSE IF scan.match[Len(scan.match)] = ";"
               THEN [scan EXCEPT !.pc = "done", !.result = scan.match]
               ELSE [scan EXCEPT !.pc = "done", !.result = scan.match \o <<";">>]
    /\ UNCHANGED <<getVars, file, dl, blob, vms, att>>

\* texts with the definition of the object Hp in them, each with the text of
\* that definition from its start to the brace that closes the object
\* (expect; "" when the text holds no whole definition of Hp)
HelperCases ==
    {[text |-> <<"v","a","r"," ","H","p","=","{","}">>, expect |-> <<"v","a","r"," ","H","p","=","{",
                                          "}">>],
     [text |-> <<"H","p","=","{","}">>, expect |-> <<"H","p","=","{","}">>],
     [text |-> <<"v","a","r"," ","H","p","=","{","a",":","1","}">>, expect |-> <<"v","a","r"," ","H","p","=","{",
                                          "a",":","1","}">>],
     [text |-> <<"H","p","=","{","a",":","1",",","b",":","\"","c","\"","}">>, expect |-> <<"H","p","=","{","a",":","1",",",
                                          "b",":","\"","c","\"","}">>],
     [text |-> <<"v","a","r"," ","H","p","=","{","r",":","f","u","n","c",
                 "t","i","o","n","(","a",")","{","a",".","r","e","v","e",
                 "r","s","e","(",")","}","}">>,
      expect |-> <<"v","a","r"," ","H","p","=","{","r",":","f","u","n","c",
                   "t","i","o","n","(","a",")","{","a",".","r","e","v","e",
                   "r","s","e","(",")","}","}">>],
     [text |-> <<"H","p","=","{","r",":","f","u","n","c","t","i","o","n",
                 "(","a",")","{","a",".","r","e","v","e","r","s","e","(",
                 ")","}",",","s",":","f","u","n","c","t","i","o","n","(",
                 "a",",","b",")","{","a",".","s","p","l","i","c","e","(",
                 "0",",","b",")","}","}">>,
      expect |-> <<"H","p","=","{","r",":","f","u","n","c","t","i","o","n",
                   "(","a",")","{","a",".","r","e","v","e","r","s","e","(",
                   ")","}",",","s",":","f","u","n","c","t","i","o","n","(",
                   "a",",","b",")","{","a",".","s","p","l","i","c","e","(",
                   "0",",","b",")","}","}">>],
     [text |-> <<"v","a","r"," ","H","p","=","{","s",":","\"","}","\"","}">>, expect |-> <<"v","a","r"," ","H","p","=","{",
                                          "s",":","\"","}","\"","}">>],
     [text |-> <<"H","p","=","{","s",":","\"","'","\"",",","t",":","\"","{",
                 "\"","}">>, expect |-> <<"H","p","=","{","s",":","\"","'",
                                          "\"",",","t",":","\"","{","\"","}">>],
     [text |-> <<"v","a","r"," ","H","p","=","{","a",":","{","b",":","1","}">>, expect |-> <<>>],
     [text |-> <<"v","a","r"," ","H","p","=","{","a",":","\"","'","\"">>, expect |-> <<>>],
     [text |-> <<"H","p","=","{">>, expect |-> <<>>],
     [text |-> <<"X","y","=","f","u","n","c","t","i","o","n","(","a",")",
                 "{","r","e","t","u","r","n"," ","a","}">>, expect |-> <<>>],
     [text |-> <<"H","q","=","1">>, expect |-> <<>>]}

\* one call of extractHelperObject(blob, "Hp"), or with no helper name
InitExtractHelper ==
    /\ InitScanOnly
    /\ \E c \in HelperCases,
          before \in {<<>>, <<"q","=","1",";">>, <<"x","(",")",";">>},
          after \in {<<>>, <<";">>, <<";","z","(",")">>, <<";","X","y","=","1">>} :
          /\ blob = before \o c.text \o after
          /\ \/ scan = [ScanLocals(Hp, c.expect, "") EXCEPT !.pc = "hpatterns"]
             \/ /\ before = <<>> /\ after = <<>>
                /\ scan = [ScanLocals(<<>>, <<>>, "") EXCEPT !.pc = "hpatterns"]

NextExtractHelper ==
    \/ ExtractHelperPatterns
    \/ ExtractHelperScanStart
    \/ ExtractHelperStep
    \/ ExtractHelperEnd

SpecExtractHelper == InitExtractHelper /\ [][NextExtractHelper]_vars

(***************************************************************************)
(* extractDecryptFunction (lines 376-419) on the text of the bundle        *)
(***************************************************************************)

\* `\s*=\s*function\(\s*a\s*\)\s*\{\s*a\s*=\s*a\.split\(\s*""\s*\)`
SplitOfA ==
    <<Ws>> \o Lit(<<"=">>) \o <<Ws>> \o Lit(<<"f","u","n","c","t","i","o","n",
                                          "(">>) \o <<Ws>> \o Lit(<<"a">>)
    \o <<Ws>> \o Lit(<<")">>) \o <<Ws>> \o Lit(<<"{">>) \o <<Ws>> \o Lit(<<"a">>) \o <<Ws>>
    \o Lit(<<"=">>) \o <<Ws>> \o Lit(<<"a",".","s","p","l","i","t","(">>) \o <<Ws>> \o Lit(<<"\"","\"">>) \o <<Ws>>
    \o Lit(<<")">>)

\* lines 378-387: the patterns in their order, each with the number of its
\* capture groups
LocatorPatterns ==
    <<[re |-> <<WordB, Open(1), Many(NameChars, 2), Close(1)>> \o SplitOfA,
       groups |-> 1],
      [re |-> <<WordB, Open(1), Many(NameChars, 2), Close(1)>> \o SplitOfA
              \o Lit(<<";">>),
       groups |-> 1],
      [re |-> <<Open(1), Many(NameChars, 1), Close(1)>>
              \o Lit(<<"=","f","u","n","c","t","i","o","n","(","a",")","{",
                       "a","=","a",".","s","p","l","i","t","(","\"","\"",
                       ")",";">>)
              \o <<Open(2), Many(NameChars, 1), Close(2)>> \o Lit(<<".">>),
       groups |-> 2],
      [re |-> <<WordB, Open(1), Many(NameChars, 1), Close(1), Ws>> \o Lit(<<"=">>)
              \o <<Ws>> \o Lit(<<"f","u","n","c","t","i","o","n","(">>) \o <<One(Letters)>> \o Lit(<<")","{">>)
              \o <<One(Letters)>> \o Lit(<<"=">>)
              \o <<Open(2), One(Letters), Close(2)>> \o Lit(<<".","s","p","l","i","t","(","\"",
                                          "\"",")">>),
       groups |-> 2]>>

\* line 410: the helper pattern, with the quoted function name
HelperNameRe(funcName) ==
    Lit(funcName) \o Lit(<<"=","f","u","n","c","t","i","o","n","(">>) \o <<One(Letters)>> \o Lit(<<")","{">>)
    \o <<One(Letters)>> \o Lit(<<"=">>) \o <<One(Letters)>> \o Lit(<<".","s","p","l","i","t","(","\"",
                                          "\"",")",";">>)
    \o <<Open(1), Many(NameChars, 1), Close(1)>> \o Lit(<<".">>)

\* the loop goes on after a match: the last matching pattern wins
LocateTry_noBreak ==
    /\ scan.pc = "ltry"
    /\ LET pattern == LocatorPatterns[scan.k]
           matches == Find(pattern.re, blob)
           next    == IF scan.k = Len(LocatorPatterns) THEN "lend" ELSE "ltry"
       IN  IF matches.ok
           THEN scan' = [scan EXCEPT
                            !.pc = next, !.k = @ + 1,
                            !.funcName = Group(blob, matches, 1),
                            !.helperName = IF pattern.groups >= 2
                                           THEN Group(blob, matches, 2) ELSE @]
           ELSE scan' = [scan EXCEPT !.pc = next, !.k = @ + 1]
    /\ UNCHANGED <<getVars, file, dl, blob, vms, att>>

\* lines 392-402: one iteration of the loop over the patterns; at a match
\* scan.k stays the number of the pattern that matched
LocateTry ==
    /\ scan.pc = "ltry"
    /\ LET pattern == LocatorPatterns[scan.k]
           matches == Find(pattern.re, blob)
       IN  IF matches.ok
           THEN scan' = [scan EXCEPT
                            !.pc = "lend",
                            !.funcName = Group(blob, matches, 1),
                            !.helperName = IF pattern.groups >= 2
                                           THEN Group(blob, matches, 2) ELSE @]
           ELSE scan' = [scan EXCEPT
                            !.pc = IF scan.k = Len(LocatorPatterns)
                                   THEN "lend" ELSE "ltry",
                            !.k = @ + 1]
    /\ UNCHANGED <<getVars, file, dl, blob, vms, att>>

\* lines 404-418: not found, or the helper pattern and the return
LocateEnd ==
    /\ scan.pc = "lend"
    /\ LET helperMatches == Find(HelperNameRe(scan.funcName), blob) IN
       IF scan.funcName = <<>>
       THEN scan' = [scan EXCEPT !.pc = "done", !.err = "notfound"]
       ELSE IF scan.helperName = <<>> /\ helperMatches.ok
       THEN scan' = [scan EXCEPT !.pc = "done",
                                 !.helperName = Group(blob, helperMatches, 1)]
       ELSE scan' = [scan EXCEPT !.pc = "done"]
    /\ UNCHANGED <<getVars, file, dl, blob, vms, att>>

\* what a text binds: the function name, its parameter, the identifier whose
\* split("") is its first statement (<<>> when it starts otherwise) and the
\* object whose member is accessed right after that statement (<<>>: none)
Bound(name, param, splits, helper) ==
    [name |-> name, param |-> param, splits |-> splits, helper |-> helper]

\* bundle texts, each with the number of the first pattern of the list that
\* matches it (0: none), the name that pattern captures, and the functions
\* the text binds
LocatorCases ==
    {[text |-> <<"X","y","=","f","u","n","c","t","i","o","n","(","a",")",
                 "{","a","=","a",".","s","p","l","i","t","(","\"","\"",")",
                 ";","H","p",".","r","(","a",",","2",")",";","r","e","t",
                 "u","r","n"," ","a",".","j","o","i","n","(","\"","\"",")",
                 "}">>,
      first |-> 1, name |-> <<"X","y">>, funcs |-> {Bound(<<"X","y">>, <<"a">>, <<"a">>, <<"H","p">>)}],
     [text |-> <<"X","y"," ","="," ","f","u","n","c","t","i","o","n","(",
                 " ","a"," ",")"," ","{"," ","a"," ","="," ","a",".","s",
                 "p","l","i","t","("," ","\"","\""," ",")",";"," ","H","p",
                 ".","r","(","a",")"," ","}">>,
      first |-> 1, name |-> <<"X","y">>, funcs |-> {Bound(<<"X","y">>, <<"a">>, <<"a">>, <<"H","p">>)}],
     [text |-> <<"a","=","f","u","n","c","t","i","o","n","(","a",")","{",
                 "a","=","a",".","s","p","l","i","t","(","\"","\"",")",";",
                 "b",".","c","(","a",",","1",")","}">>,
      first |-> 3, name |-> <<"a">>, funcs |-> {Bound(<<"a">>, <<"a">>, <<"a">>, <<"b">>)}],
     [text |-> <<"X","y","=","f","u","n","c","t","i","o","n","(","b",")",
                 "{","b","=","b",".","s","p","l","i","t","(","\"","\"",")",
                 ";","H","p",".","r","(","b",")","}">>,
      first |-> 4, name |-> <<"X","y">>, funcs |-> {Bound(<<"X","y">>, <<"b">>, <<"b">>, <<"H","p">>)}],
     [text |-> <<"X","y","=","f","u","n","c","t","i","o","n","(","b",")",
                 "{","c","=","d",".","s","p","l","i","t","(","\"","\"",")",
                 "}">>,
      first |-> 4, name |-> <<"X","y">>, funcs |-> {Bound(<<"X","y">>, <<"b">>, <<"d">>, <<>>)}],
     [text |-> <<"$","a","b","=","f","u","n","c","t","i","o","n","(","a",
                 ")","{","a","=","a",".","s","p","l","i","t","(","\"","\"",
                 ")",";","H","p",".","r","(","a",")","}">>,
      first |-> 1, name |-> <<"a","b">>, funcs |-> {Bound(<<"$","a","b">>, <<"a">>, <<"a">>, <<"H","p">>)}],
     [text |-> <<"Z","z","=","f","u","n","c","t","i","o","n","(","a",")",
                 "{","r","e","t","u","r","n"," ","a",".","j","o","i","n",
                 "(","\"","\"",")","}">>,
      first |-> 0, name |-> <<>>, funcs |-> {Bound(<<"Z","z">>, <<"a">>, <<>>, <<>>)}],
     [text |-> <<"b","=","f","u","n","c","t","i","o","n","(","a",")","{",
                 "a","=","a",".","s","p","l","i","t","(","\"","\"",")",";",
                 "H","q",".","r","(","a",")","}",";","X","y","=","f","u",
                 "n","c","t","i","o","n","(","a",")","{","a","=","a",".",
                 "s","p","l","i","t","(","\"","\"",")",";","H","p",".","s",
                 "(","a",")","}">>,
      first |-> 1, name |-> <<"X","y">>,
      funcs |-> {Bound(<<"b">>, <<"a">>, <<"a">>, <<"H","q">>), Bound(<<"X","y">>, <<"a">>, <<"a">>, <<"H","p">>)}],
     [text |-> <<"X","y","=","f","u","n","c","t","i","o","n","(","a",")",
                 "{","a","=","a",".","s","p","l","i","t","(","\"","\"",")",
                 ";","r","e","t","u","r","n"," ","a",".","r","e","v","e",
                 "r","s","e","(",")",".","j","o","i","n","(","\"","\"",")",
                 "}">>,
      first |-> 1, name |-> <<"X","y">>, funcs |-> {Bound(<<"X","y">>, <<"a">>, <<"a">>, <<>>)}],
     [text |-> <<"X","y","=","f","u","n","c","t","i","o","n","(","a",")",
                 "{","a","=","a",".","s","p","l","i","t","(","\"","\"",")",
                 ";","a",".","r","e","v","e","r","s","e","(",")",";","r",
                 "e","t","u","r","n"," ","a",".","j","o","i","n","(","\"",
                 "\"",")","}">>,
      first |-> 1, name |-> <<"X","y">>, funcs |-> {Bound(<<"X","y">>, <<"a">>, <<"a">>, <<>>)}],
     [text |-> <<"x","1"," ","=","\n","f","u","n","c","t","i","o","n","(",
                 "a",")","{","a","=","a",".","s","p","l","i","t","(","\"",
                 "\"",")","}">>,
      first |-> 1, name |-> <<"x","1">>, funcs |-> {Bound(<<"x","1">>, <<"a">>, <<"a">>, <<>>)}],
     [text |-> <<"f","=","f","u","n","c","t","i","o","n","(","x",")","{",
                 "x","=","x",".","s","p","l","i","t","(","\"","\"",")","}">>,
      first |-> 4, name |-> <<"f">>, funcs |-> {Bound(<<"f">>, <<"x">>, <<"x">>, <<>>)}],
     [text |-> <<"X","y","=","f","u","n","c","t","i","o","n","(","a",")",
                 "{","a","=","a",".","s","p","l","i","t","(","\"",",","\"",
                 ")","}">>,
      first |-> 0, name |-> <<>>, funcs |-> {Bound(<<"X","y">>, <<"a">>, <<>>, <<>>)}],
     [text |-> <<"X","y","=","f","u","n","c","t","i","o","n","(","a",",",
                 "b",")","{","a","=","a",".","s","p","l","i","t","(","\"",
                 "\"",")","}">>,
      first |-> 0, name |-> <<>>, funcs |-> {Bound(<<"X","y">>, <<"a">>, <<"a">>, <<>>)}]}

\* one call of extractDecryptFunction(blob)
InitLocate ==
    /\ InitScanOnly
    /\ \E c \in LocatorCases,
          before \in {<<>>, <<"v","a","r"," ","q","=","1",";">>, <<"x","(",")",";">>},
          after \in {<<>>, <<";","z","(",")">>} :
          /\ blob = before \o c.text \o after
          /\ scan = [pc |-> "ltry", k |-> 1, funcName |-> <<>>,
                     helperName |-> <<>>, err |-> "", first |-> c.first,
                     name |-> c.name, funcs |-> c.funcs]

NextLocate == LocateTry \/ LocateEnd

SpecLocate == InitLocate /\ [][NextLocate]_vars

(***************************************************************************)
(* decryptSignature, statement by statement, with its script contexts      *)
(***************************************************************************)

\* goja.New(): nothing is defined in a new context; log lists the scripts
\* run in it, each with the attempt that ran it
FreshVm == [helper |-> FALSE, body |-> "none", log |-> <<>>]

\* vm.RunString(code) in context v by attempt p, for a definition fragment
\* (what is "helper" or "func") that defines def when it loads
RunString(v, p, what, code, def) ==
    LET ok == RunFragment(code)
        logged == [v EXCEPT !.log = Append(v.log, [who |-> p, what |-> what, ok |-> ok])]
    IN  IF ~ok THEN logged
        ELSE IF what = "helper" THEN [logged EXCEPT !.helper = TRUE]
        ELSE [logged EXCEPT !.body = def]

\* vm.RunString(funcName("signature")) in context v by attempt p: the function
\* and the helper are the ones defined in v
RunCallIn(v, signature) ==
    IF v.body = "none" THEN [err |-> TRUE, val |-> <<>>]
    ELSE RunCall([body |-> v.body], v.helper, signature)

\* lines 557-569: the three extractions; the error of extractHelperObject is
\* dropped
DecryptBegin(p) ==
    /\ att[p].pc = "begin"
    /\ LET loc        == extractDecryptFunction(att[p].playerCode)
           helperCode == extractHelperObject(att[p].playerCode, loc.helperName).code
           func       == extractFullDecryptFunction(att[p].playerCode, loc.funcName)
       IN  att' = [att EXCEPT ![p] =
               IF loc.err THEN [att[p] EXCEPT !.pc = "done", !.err = "locate"]
               ELSE IF func.err THEN [att[p] EXCEPT !.pc = "done", !.err = "extract"]
               ELSE [att[p] EXCEPT !.pc = "new", !.helperCode = helperCode,
                                   !.funcCode = func.code]]
    /\ UNCHANGED <<getVars, file, dl, blob, scan, vms>>

\* every attempt uses the context created first
DecryptNew_shared(p) ==
    /\ att[p].pc = "new"
    /\ vms' = IF vms = <<>> THEN <<FreshVm>> ELSE vms
    /\ att' = [att EXCEPT ![p] = [att[p] EXCEPT !.pc = "helper", !.vm = 1]]
    /\ UNCHANGED <<getVars, file, dl, blob, scan>>

\* line 572: vm := goja.New()
DecryptNew(p) ==
    /\ att[p].pc = "new"
    /\ vms' = Append(vms, FreshVm)
    /\ att' = [att EXCEPT ![p] = [att[p] EXCEPT !.pc = "helper", !.vm = Len(vms) + 1]]
    /\ UNCHANGED <<getVars, file, dl, blob, scan>>

\* lines 575-580
DecryptLoadHelper(p) ==
    /\ att[p].pc = "helper"
    /\ IF att[p].helperCode = ""
       THEN /\ vms' = vms
            /\ att' = [att EXCEPT ![p] = [att[p] EXCEPT !.pc = "func"]]
       ELSE LET v == RunString(vms[att[p].vm], p, "helper", att[p].helperCode, "")
            IN  /\ vms' = [vms EXCEPT ![att[p].vm] = v]
                /\ att' = [att EXCEPT ![p] =
                       IF v.log[Len(v.log)].ok
                       THEN [att[p] EXCEPT !.pc = "func"]
                       ELSE [att[p] EXCEPT !.pc = "done", !.err = "helper"]]
    /\ UNCHANGED <<getVars, file, dl, blob, scan>>

\* lines 582-585
DecryptLoadFunc(p) ==
    /\ att[p].pc = "func"
    /\ LET v == RunString(vms[att[p].vm], p, "func", att[p].funcCode,
                          att[p].playerCode.body)
       IN  /\ vms' = [vms EXCEPT ![att[p].vm] = v]
           /\ att' = [att EXCEPT ![p] =
                  IF v.log[Len(v.log)].ok
                  THEN [att[p] EXCEPT !.pc = "call"]
                  ELSE [att[p] EXCEPT !.pc = "done", !.err = "func"]]
    /\ UNCHANGED <<getVars, file, dl, blob, scan>>

\* lines 588-593
DecryptCall(p) ==
    /\ att[p].pc = "call"
    /\ LET v == vms[att[p].vm]
           r == RunCallIn(v, att[p].signature)
       IN  /\ vms' = [vms EXCEPT ![att[p].vm] =
                  [v EXCEPT !.log = Append(v.log, [who |-> p, what |-> "call",
                                                   ok |-> ~r.err])]]
           /\ att' = [att EXCEPT ![p] =
                  IF r.err THEN [att[p] EXCEPT !.pc = "done", !.err = "call"]
                  ELSE [att[p] EXCEPT !.pc = "done", !.result = r.val]]
    /\ UNCHANGED <<getVars, file, dl, blob, scan>>

\* the signatures of the attempts
Signatures ==
    {<<"A","B">>, <<"B","A","A">>, <<"A","\"","B">>, <<"A","\\","B">>,
     <<"A","\n","B">>}

Attempt(code, sig) ==
    [pc |-> "begin", playerCode |-> code, signature |-> sig,
     helperCode |-> "", funcCode |-> "", vm |-> 0, result |-> <<>>, err |-> ""]

\* two descrambling attempts, each with its own script bundle
InitSandbox ==
    /\ InitGetOff
    /\ file = <<>>
    /\ dl = [pc |-> "off"]
    /\ blob = <<>>
    /\ scan = [pc |-> "off"]
    /\ vms = <<>>
    /\ \E b1 \in Bundles, b2 \in Bundles, s1 \in Signatures, s2 \in Signatures :
          att = [p \in Procs |-> IF p = 1 THEN Attempt(b1, s1) ELSE Attempt(b2, s2)]

NextSandbox ==
    \E p \in Procs :
        \/ DecryptBegin(p)
        \/ DecryptNew(p)
        \/ DecryptLoadHelper(p)
        \/ DecryptLoadFunc(p)
        \/ DecryptCall(p)

SpecSandbox == InitSandbox /\ [][NextSandbox]_vars

(***************************************************************************)
(* What the inputs mean, read off their text (used by the properties only) *)
(***************************************************************************)

\* the parameters of each signature cipher text: ok is whether every pair of
\* it is well-formed, url / s / sp are its decoded parameters, descrambled is
\* the URL with the signature parameter appended when the descrambler turns
\* s around (AABB to BBAA), "" when there is nothing to descramble
CipherCases ==
    {[raw |-> <<>>, ok |-> TRUE, url |-> <<>>, s |-> <<>>, sp |-> <<>>,
      descrambled |-> <<>>],
     [raw |-> DCipher.SignatureCipher, ok |-> TRUE, url |-> UrlBase \o <<"v">>,
      s |-> <<"A","A","B","B">>, sp |-> <<"s","i","g">>,
      descrambled |-> UrlBase \o <<"v","?","s","i","g","=","B","B","A","A">>],
     [raw |-> DNoSig.SignatureCipher, ok |-> TRUE, url |-> UrlBase \o <<"w">>,
      s |-> <<>>, sp |-> <<>>, descrambled |-> <<>>],
     [raw |-> DQuery.SignatureCipher, ok |-> TRUE,
      url |-> UrlBase \o <<"v","?","a","=","1">>, s |-> <<"A","B">>, sp |-> <<>>,
      descrambled |-> UrlBase \o <<"v","?","a","=","1","&","s","i","g","n","a",
                                   "t","u","r","e","=","B","A">>],
     [raw |-> DNoUrl.SignatureCipher, ok |-> TRUE, url |-> <<>>,
      s |-> <<"A","B">>, sp |-> <<"s","i","g">>, descrambled |-> <<>>],
     [raw |-> DBadEsc.SignatureCipher, ok |-> FALSE, url |-> UrlBase \o <<"v">>,
      s |-> <<>>, sp |-> <<>>, descrambled |-> <<>>],
     [raw |-> DBackslash.SignatureCipher, ok |-> TRUE, url |-> UrlBase \o <<"v">>,
      s |-> <<"A","\\","B">>, sp |-> <<>>,
      descrambled |-> UrlBase \o <<"v","?","s","i","g","n","a","t","u","r","e",
                                   "=","B","%","5","C","A">>],
     [raw |-> DQuote.SignatureCipher, ok |-> TRUE, url |-> UrlBase \o <<"v">>,
      s |-> <<"A","\"","B">>, sp |-> <<"s","i","g">>,
      descrambled |-> UrlBase \o <<"v","?","s","i","g","=","B","%","2","2","A">>]}

CipherOf(d) == CHOOSE c \in CipherCases : c.raw = d.SignatureCipher

\* the descriptor has a URL the resolver can use
Resolvable(d) ==
    \/ d.URL # <<>>
    \/ CipherOf(d).ok /\ CipherOf(d).url # <<>>

\* the descriptor is one the descrambling chain is for
NeedsDescrambling(d) ==
    /\ d.URL = <<>>
    /\ CipherOf(d).ok
    /\ CipherOf(d).url # <<>>
    /\ CipherOf(d).s # <<>>

\* the URL of the descriptor before any descrambling
PlainUrl(d) == IF d.URL # <<>> THEN d.URL ELSE CipherOf(d).url

IsPrefix(a, b) == Len(a) <= Len(b) /\ SubSeq(b, 1, Len(a)) = a

\* the descriptors of the page as served, progressive ones first
Served == net.page.formats \o net.page.adaptiveFormats

\* the position in Formats of descriptor i of all (when it is kept)
PosOf(all, i) == Cardinality({j \in 1..i : Resolvable(all[j])})

\* parseMeta got to the stream descriptors of the served page
InFormats(p) ==
    \/ pc[p] = "formats"
    \/ pc[p] = "done" /\ err[p] \in {"", "noformats"}

Returned(p) == pc[p] = "done" /\ err[p] = ""

\* the script bundle was obtained
BundleObtained ==
    /\ net.page.jsUrl
    /\ ~net.js.doErr
    /\ net.js.status = 200
    /\ ~net.js.code.empty

\* the bundle's function is found, extracted, loaded with the helper it uses,
\* and returns its argument reversed
Descrambles(b) ==
    /\ b.funcName # <<>>
    /\ b.funcDef = "ok"
    /\ \/ b.body = "reverse" /\ (b.helperName = <<>> \/ b.helperDef # "broken")
       \/ b.body = "helper_reverse" /\ b.helperName # <<>> /\ b.helperDef = "ok"

\* the call  name("<s>")  written with s as it is cannot be read as a call
\* with one string argument
Unquotable(sig) == \E k \in 1..Len(sig) : sig[k] \in {"\"", "\\"}

\* a stage of the chain fails in the bundle: locator, fragment extraction,
\* load, or invocation
StageFails(b) ==
    \/ b.funcName = <<>>
    \/ b.funcDef = "none"
    \/ b.funcDef = "broken"
    \/ b.helperName # <<>> /\ b.helperDef = "broken"
    \/ b.body = "throws"
    \/ b.body = "helper_reverse" /\ (b.helperName = <<>> \/ b.helperDef = "none")

(***************************************************************************)
(* Properties                                                              *)
(***************************************************************************)

\* C1: when every descriptor of the manifest has a resolvable URL, a
\* successful resolution returns exactly N+M formats: the N progressive ones
\* in manifest order, then the M adaptive ones in manifest order.
C1_ManifestOrder ==
    \A p \in Procs :
        (Returned(p) /\ \A i \in 1..Len(Served) : Resolvable(Served[i])) =>
            LET N == Len(net.page.formats)
                M == Len(net.page.adaptiveFormats)
                F == video[p].Formats
                From(fmt, d) == /\ fmt.Itag = d.Itag
                                /\ fmt.Video_type = d.MimeType
                                /\ IsPrefix(PlainUrl(d), fmt.Url)
            IN  /\ Len(F) = N + M
                /\ \A i \in 1..N : From(F[i], net.page.formats[i])
                /\ \A j \in 1..M : From(F[N + j], net.page.adaptiveFormats[j])

\* C1 witness: two progressive and one adaptive descriptor, all resolved
C1_Witness ==
    /\ Returned(1)
    /\ Len(net.page.formats) = 2
    /\ Len(net.page.adaptiveFormats) = 1
    /\ \A i \in 1..Len(Served) : Resolvable(Served[i])
    /\ net.page.formats[1] # net.page.formats[2]
    /\ Len(video[1].Formats) = 3

\* C2: a Video returned without error has at least one Format; when no
\* descriptor of the manifest yields a URL (a manifest without descriptors
\* included) the resolution fails with the no-formats error.
C2_NeverEmpty ==
    \A p \in Procs :
        /\ Returned(p) => Len(video[p].Formats) >= 1
        /\ (pc[p] = "done" /\ InFormats(p)
              /\ \A i \in 1..Len(Served) : ~Resolvable(Served[i]))
           => err[p] = "noformats" /\ video[p] = EmptyVideo

\* C2 witness: a manifest with descriptors, none of them resolvable, ends in
\* the no-formats error
C2_Witness ==
    /\ pc[1] = "done"
    /\ err[1] = "noformats"
    /\ Len(Served) = 2
    /\ Served[1].SignatureCipher # <<>>

\* C3: every Format has a non-empty Url, and the Formats are exactly the
\* descriptors for which a URL can be obtained: the others are dropped.
C3_UrlNonEmpty ==
    \A p \in Procs :
        /\ \A k \in 1..Len(video[p].Formats) : video[p].Formats[k].Url # <<>>
        /\ pc[p] = "formats" =>
              Len(video[p].Formats) = PosOf(Served, idx[p] - 1)
        /\ Returned(p) => Len(video[p].Formats) = PosOf(Served, Len(Served))

\* C3 witness: a returned Video for which one descriptor was dropped and the
\* descrambling of another one failed
C3_Witness ==
    /\ Returned(1)
    /\ Len(video[1].Formats) < Len(Served)
    /\ chain[1] # {}
    /\ StageFails(playerCode[1])
    /\ \E i \in 1..Len(Served) : Served[i].URL # <<>>

C5_SignatureAppended ==
    \A p \in Procs :
        (Returned(p) /\ BundleObtained /\ Descrambles(playerCode[p])) =>
            \A i \in 1..Len(Served) :
                NeedsDescrambling(Served[i]) =>
                    video[p].Formats[PosOf(Served, i)].Url =
                        CipherOf(Served[i]).descrambled

\* C5, for the signatures that are the same text inside a quoted literal
\* (no quote, no backslash): the statement of C5 holds for them.
C5_PlainSignatures ==
    \A p \in Procs :
        (Returned(p) /\ BundleObtained /\ Descrambles(playerCode[p])) =>
            \A i \in 1..Len(Served) :
                (NeedsDescrambling(Served[i]) /\ ~Unquotable(CipherOf(Served[i]).s)) =>
                    video[p].Formats[PosOf(Served, i)].Url =
                        CipherOf(Served[i]).descrambled

\* the example of the specification: http://x.test/v?sig=BBAA
C5_ExampleReached ==
    /\ Returned(1)
    /\ Served[1] = DCipher
    /\ video[1].Formats[1].Url =
          <<"h","t","t","p",":","/","/","x",".","t","e","s","t","/","v","?",
            "s","i","g","=","B","B","A","A">>

\* C6: the descrambling chain runs for a descriptor only when it has no direct
\* URL, its cipher has a non-empty s and a script bundle was obtained; in
\* every other case the Url is the direct URL, or the cipher's url, unchanged.
C6_ChainOnlyWhenNeeded ==
    \A p \in Procs :
        InFormats(p) =>
            /\ \A i \in chain[p] :
                  /\ Served[i].URL = <<>>
                  /\ CipherOf(Served[i]).s # <<>>
                  /\ BundleObtained
            /\ Returned(p) =>
                  \A i \in 1..Len(Served) :
                     (Resolvable(Served[i]) /\ i \notin chain[p]) =>
                         video[p].Formats[PosOf(Served, i)].Url = PlainUrl(Served[i])

\* C6 witness: the chain ran for one stream and not for another one, which
\* has a cipher with a signature next to its direct URL
C6_Witness ==
    /\ Returned(1)
    /\ \E i \in chain[1] : Served[i] = DQuery
    /\ \E i \in 1..Len(Served) :
          /\ i \notin chain[1]
          /\ Served[i] = DBoth
          /\ video[1].Formats[PosOf(Served, i)].Url = DBoth.URL

\* the text of the heights that occur in the descriptors
HeightText(h) ==
    CASE h = 360 -> <<"3","6","0">>
      [] h = 720 -> <<"7","2","0">>
      [] h = 1080 -> <<"1","0","8","0">>
      [] OTHER -> <<>>

\* C10: the quality label of a Format is the descriptor's quality string when
\* that is non-empty, else "<height>p" when the height is positive, else
\* "unknown"; it is never empty.
C10_QualityLabel ==
    \A p \in Procs :
        InFormats(p) =>
            LET kept == SelectSeq(Served, Resolvable) IN
            \A k \in 1..Len(video[p].Formats) :
                LET d == kept[k]
                    q == video[p].Formats[k].Quality
                IN  /\ q # <<>>
                    /\ d.Quality # <<>> => q = d.Quality
                    /\ (d.Quality = <<>> /\ d.Height > 0) =>
                          q = HeightText(d.Height) \o <<"p">>
                    /\ (d.Quality = <<>> /\ d.Height <= 0) =>
                          q = <<"u","n","k","n","o","w","n">>

\* C10 witness: a label from the height, and "unknown" for a negative height
C10_Witness ==
    /\ Returned(1)
    /\ \E k \in 1..Len(video[1].Formats) :
          video[1].Formats[k].Quality = <<"3","6","0","p">>
    /\ \E k \in 1..Len(video[1].Formats) :
          /\ video[1].Formats[k].Quality = <<"u","n","k","n","o","w","n">>
          /\ SelectSeq(Served, Resolvable)[k].Height < 0

\* C7: IndexByItag(tag) returns the smallest index whose Format has that
\* itag, with a non-nil pointer; the pointer is nil exactly when no Format has
\* the itag; the call leaves the Video as it is, so a repeated call finds the
\* same.
C7_IndexByItag ==
    [][\A p \in Procs :
          lookup'[p] # lookup[p] =>
             LET r == lookup'[p]
                 F == video[p].Formats
             IN  /\ video' = video
                 /\ r.called
                 /\ r.found <=> \E j \in 1..Len(F) : F[j].Itag = r.itag
                 /\ r.found =>
                       /\ r.index + 1 \in 1..Len(F)
                       /\ F[r.index + 1].Itag = r.itag
                       /\ \A j \in 1..r.index : F[j].Itag # r.itag
                 /\ ~r.found => r.index = 0]_vars

\* C7 witness: two Formats carry the itag looked up; the first one is found
C7_Witness ==
    /\ lookup[1].called
    /\ lookup[1].found
    /\ lookup[1].index = 0
    /\ Len(video[1].Formats) = 2
    /\ video[1].Formats[2].Itag = lookup[1].itag

\* C8: Get with a watch-page URL whose query parameter v is X works with the
\* identifier X, and returns the Video or the failure that Get(X) returns.
\* (Under SpecPair call 1 has the URL and call 2 has X.)
C8_UrlLikeId ==
    (pc[1] = "done" /\ pc[2] = "done") =>
        /\ video_id[1] = input[2]
        /\ video_id[2] = input[2]
        /\ err[1] = err[2]
        /\ video[1] = video[2]

\* C8 witness: a URL with an escaped v resolves to the Video with Id = X
C8_Witness ==
    /\ pc[1] = "done" /\ pc[2] = "done"
    /\ Contains(input[1], <<"%">>)
    /\ err[1] = ""
    /\ video[1].Id = input[2]
    /\ Len(video[1].Formats) = 3
    /\ input[1] # input[2]

\* the request for the page failed: no answer, a status other than 200, or a
\* body that broke off
PageFetchFailed(p) ==
    \/ net.doErr
    \/ video_id[p] # net.id
    \/ net.status # 200
    \/ net.readErr

\* C9: when the fetch of the page fails (a status other than 200 included),
\* Get returns a fetch error, parses nothing and returns no metadata: a fetch
\* failure is never turned into empty or partial content that is then parsed.
C9_FetchFailureNotParsed ==
    \A p \in Procs :
        (pc[p] \notin {"off", "start"} /\ PageFetchFailed(p)) =>
            /\ pc[p] = "done"
            /\ err[p] = "fetch"
            /\ video[p] = EmptyVideo

\* C9, the part about the status: an answer with a status other than 200, or
\* no answer, ends Get with a fetch error and nothing parsed.
C9_StatusNot200 ==
    \A p \in Procs :
        (pc[p] \notin {"off", "start"}
            /\ (net.doErr \/ video_id[p] # net.id \/ net.status # 200)) =>
            /\ pc[p] = "done"
            /\ err[p] = "fetch"
            /\ video[p] = EmptyVideo

\* a 403 answer that carries a whole page ends in the fetch error
C9_StatusReached ==
    /\ pc[1] = "done"
    /\ err[1] = "fetch"
    /\ net.status = 403
    /\ net.page.found /\ net.page.valid

\* the page the site serves for the video id
PageFor(id) ==
    IF id = net.id THEN net.page
    ELSE (CHOOSE r \in net.more : r.id = id).page

\* What a resolution of the video id returns when it runs alone, read off the
\* page of that video and the bundle: a Format for each descriptor with a URL,
\* with the descrambled URL where the descriptor needs one and the bundle
\* descrambles, and the plain URL otherwise.
AloneResult(id) ==
    LET page == PageFor(id)
        kept == SelectSeq(page.formats \o page.adaptiveFormats, Resolvable)
        Url(d) == IF NeedsDescrambling(d) /\ page.jsUrl /\ Descrambles(net.js.code)
                  THEN CipherOf(d).descrambled
                  ELSE PlainUrl(d)
        Label(d) == IF d.Quality # <<>> THEN d.Quality
                    ELSE IF d.Height > 0 THEN HeightText(d.Height) \o <<"p">>
                    ELSE <<"u","n","k","n","o","w","n">>
    IN  IF kept = <<>> THEN [err |-> "noformats", video |-> EmptyVideo]
        ELSE [err |-> "",
              video |-> [Id |-> id, Title |-> page.title,
                         Formats |-> [k \in 1..Len(kept) |->
                                        [Itag |-> kept[k].Itag,
                                         Video_type |-> kept[k].MimeType,
                                         Quality |-> Label(kept[k]),
                                         Url |-> Url(kept[k])]]]]

\* C11: resolutions of different videos that run concurrently share no
\* mutable state: under every interleaving each returns the result it returns
\* when it runs alone, and until then works on its own video only.
\* (Under SpecTwo call 1 resolves one video and call 2 another one.)
C11_NoSharedState ==
    \A p \in Procs :
        /\ pc[p] = "done" =>
              /\ err[p] = AloneResult(input[p]).err
              /\ video[p] = AloneResult(input[p]).video
        /\ pc[p] = "formats" =>
              /\ video[p].Id = input[p]
              /\ \A q \in Procs \ {p} :
                    pc[q] = "start" => video[q] = EmptyVideo

\* C11 witness: both calls returned, each the Formats of its own video, one
\* of them while the other one was between two of its stream descriptors
C11_Witness ==
    /\ pc[1] = "formats" /\ idx[1] = 2
    /\ pc[2] = "done" /\ err[2] = ""
    /\ video[2].Id = IdB
    /\ video[2].Title = "u"
    /\ Len(video[2].Formats) = 2
    /\ Len(video[1].Formats) = 1
    /\ video[1].Title = "t"
    /\ video[2].Formats[1].Url # video[1].Formats[1].Url

\* C12: Download with option.Resume on a file that holds the first k bytes of
\* the stream leaves, when it returns successfully, exactly the bytes of the
\* stream in the file, each once and in order.
C12_ResumeCompletes ==
    (dl.pc = "done" /\ dl.err = "" /\ dl.resume
        /\ dl.before = SubSeq(dl.stream, 1, Len(dl.before))) =>
        file = dl.stream

\* C12, without option.Resume: the file is truncated and then holds the
\* stream, whatever it held before; with it, an empty file ends as the stream.
C12_FreshDownload ==
    (dl.pc = "done" /\ dl.err = "" /\ (~dl.resume \/ dl.before = <<>>)) =>
        file = dl.stream

\* a download without Resume replaced a longer file by the stream
C12_FreshReached ==
    /\ dl.pc = "done" /\ dl.err = "" /\ ~dl.resume
    /\ Len(dl.before) > Len(dl.stream)
    /\ Len(file) = MaxStream
    /\ file = dl.stream

\* C13: for a page that holds the marker assignment followed by a valid JSON
\* object and the statement separator, parseMeta captures that whole object
\* and deserializes it (also when a string inside it holds a closing brace
\* followed by the separator); it fails with the manifest-not-found error
\* exactly when the marker assignment is absent, and with the
\* manifest-malformed error exactly when the text is not valid JSON.
C13_ManifestExtracted ==
    scan.pc = "done" =>
        /\ (scan.marker /\ scan.valid) =>
              (scan.err = "" /\ scan.captured = scan.object)
        /\ scan.err = "notfound" <=> ~scan.marker
        /\ scan.err = "malformed" <=> (scan.marker /\ ~scan.valid)

\* the object is written on one line, is not empty and holds a closing brace
\* followed by the separator nowhere
PlainObject(text) ==
    /\ ~Contains(text, <<"}",";">>)
    /\ ~Contains(text, <<"\n">>)
    /\ Len(text) > 2

\* C13, for objects written on one line that are not {} and hold no "};":
\* the statement of C13 holds for them.
C13_PlainObjects ==
    (scan.pc = "done" /\ (scan.marker => PlainObject(scan.object))) =>
        /\ (scan.marker /\ scan.valid) =>
              (scan.err = "" /\ scan.captured = scan.object)
        /\ scan.err = "notfound" <=> ~scan.marker
        /\ scan.err = "malformed" <=> (scan.marker /\ ~scan.valid)

\* a nested object is captured whole and deserialized
C13_NestedReached ==
    /\ scan.pc = "done"
    /\ scan.err = ""
    /\ scan.captured = <<"{","\"","a","\"",":","{","\"","b","\"",":","\"",
                         "c","\"","}","}">>
    /\ Len(blob) > Len(scan.captured) + 40

\* C14: extractFullDecryptFunction returns the definition from its start up
\* to and including the first closing brace that brings the depth back to
\* zero, braces inside string literals not counted (nested blocks, strings
\* with braces, escaped quotes); it fails when there is no definition start
\* or the blob ends before the depth is back at zero; the scan goes over the
\* blob once at most.
C14_FunctionExtracted ==
    /\ scan.pc = "done" =>
          /\ scan.expect # <<>> =>
                (scan.err = "" /\ scan.result = <<"v","a","r"," ">> \o scan.expect \o <<";">>)
          /\ scan.expect = <<>> => (scan.err = scan.lacks /\ scan.result = <<>>)
    /\ scan.pc \in {"floop", "done"} => scan.i <= Len(blob)
    /\ scan.pc = "floop" => (scan.braceCount >= 0 /\ scan.i >= scan.start)

\* C14 witness: a definition whose strings hold braces and quotes of the
\* other kind is returned with its boundary at the matching brace
C14_Witness ==
    /\ scan.pc = "done"
    /\ scan.err = ""
    /\ scan.result = <<"v","a","r"," ","X","y","=","f","u","n","c","t","i",
                       "o","n","(","a",")","{","r","e","t","u","r","n"," ",
                       "\"","'","}","\"","+","'","\"","{","{","'","}",";">>
    /\ Len(blob) > scan.i + 1

\* C15: for a non-empty helper name defined in the blob, extractHelperObject
\* returns the whole object literal from its definition start through the
\* brace that closes the object (nested method bodies, strings with braces
\* or a quote of the other kind), ending with a statement terminator; it
\* fails when there is no such definition or the braces never balance.
C15_HelperExtracted ==
    (scan.pc = "done" /\ scan.name # <<>>) =>
        /\ scan.expect # <<>> =>
              (scan.err = "" /\ scan.result = scan.expect \o <<";">>)
        /\ scan.expect = <<>> => (scan.err = "nohelper" /\ scan.result = <<>>)

\* the number of times c occurs in text
Count(text, c) == Cardinality({i \in 1..Len(text) : text[i] = c})

\* C15, for the blobs in which the object holds no closing brace but its own
\* and, when it is never closed, the blob holds none at all: the statement of
\* C15 holds for them.
C15_FlatObjects ==
    (scan.pc = "done" /\ scan.name # <<>>
        /\ (IF scan.expect # <<>> THEN Count(scan.expect, "}") = 1
            ELSE Count(blob, "}") = 0)) =>
        /\ scan.expect # <<>> =>
              (scan.err = "" /\ scan.result = scan.expect \o <<";">>)
        /\ scan.expect = <<>> => (scan.err = "nohelper" /\ scan.result = <<>>)

\* the empty object, found by the scan by hand, and the terminator added
C15_FlatReached ==
    /\ scan.pc = "done"
    /\ scan.result = <<"v","a","r"," ","H","p","=","{","}",";">>
    /\ scan.i > scan.start
    /\ Len(blob) > Len(scan.result)

\* C16: extractDecryptFunction tries its patterns in list order and returns
\* the name captured by the first pattern that matches the blob, never the
\* capture of a later one; it fails with the not-found error exactly when no
\* pattern matches.
C16_FirstPatternWins ==
    scan.pc = "done" =>
        IF scan.first = 0
        THEN scan.err = "notfound" /\ scan.funcName = <<>>
        ELSE scan.err = "" /\ scan.funcName = scan.name /\ scan.k = scan.first

\* C16 witness: a text in which a later pattern matches further left with
\* another name; the first pattern's capture is returned
C16_Witness ==
    /\ scan.pc = "done"
    /\ scan.funcName = <<"X","y">>
    /\ Cardinality(scan.funcs) = 2
    /\ scan.k = 1
    /\ Find(LocatorPatterns[3].re, blob).ok
    /\ Group(blob, Find(LocatorPatterns[3].re, blob), 1) = <<"b">>

\* the function the text binds to the returned name
BoundAs(name) == {d \in scan.funcs : d.name = name}

\* C17: every function name extractDecryptFunction returns is an identifier
\* of at least 2 characters that the blob binds to a single-argument function
\* whose first statement splits that same argument into characters.
C17_NameIsDescrambler ==
    (scan.pc = "done" /\ scan.err = "") =>
        /\ Len(scan.funcName) >= 2
        /\ \E d \in BoundAs(scan.funcName) : d.splits # <<>> /\ d.splits = d.param

\* C17, for the names the first two patterns capture in a text that binds a
\* name without a "$" in front: there the statement of C17 holds.
C17_StrictPatterns ==
    (scan.pc = "done" /\ scan.err = "" /\ scan.k <= 2
        /\ \A d \in scan.funcs : d.name[1] # "$") =>
        /\ Len(scan.funcName) >= 2
        /\ \E d \in BoundAs(scan.funcName) : d.splits # <<>> /\ d.splits = d.param

\* a name of two characters written with white space and a line feed around
\* the assignment is returned
C17_StrictReached ==
    /\ scan.pc = "done"
    /\ scan.err = ""
    /\ scan.funcName = <<"x","1">>
    /\ Contains(blob, <<"\n">>)

\* C18: the helper name extractDecryptFunction returns is empty, or it is the
\* identifier of the object whose member is accessed right after the split
\* statement of the matched function; it is never the function's parameter
\* or another identifier; when the matching pattern does not expose a helper
\* the pattern scoped to the function name recovers it.
C18_HelperName ==
    (scan.pc = "done" /\ scan.err = "") =>
        \/ scan.helperName = <<>>
        \/ \E d \in scan.funcs :
              /\ IsPrefix(d.name, scan.funcName) \/ d.name = <<"$">> \o scan.funcName
              /\ d.helper = scan.helperName
              /\ d.param # scan.helperName

\* C18, for the first three patterns on a function that accesses a helper
\* object right after the split: the helper name is empty or that object.
C18_HelperOfCompactForm ==
    (scan.pc = "done" /\ scan.err = "" /\ scan.k <= 3
        /\ \A d \in scan.funcs : d.helper # <<>>) =>
        \/ scan.helperName = <<>>
        \/ \E d \in scan.funcs :
              /\ IsPrefix(d.name, scan.funcName) \/ d.name = <<"$">> \o scan.funcName
              /\ d.helper = scan.helperName
              /\ d.param # scan.helperName

\* the first pattern matched and the scoped pattern recovered the helper Hp
C18_RecoveredReached ==
    /\ scan.pc = "done"
    /\ scan.k = 1
    /\ scan.funcName = <<"X","y">>
    /\ scan.helperName = <<"H","p">>
    /\ Cardinality(scan.funcs) = 1

\* the bundle holds a helper fragment for the name the locator returns
HelperPresent(b) == b.helperName # <<>> /\ b.helperDef # "none"

\* the scripts an attempt on bundle b runs, in order, read off the bundle
ExpectedScripts(b) ==
    IF b.funcName = <<>> \/ b.funcDef = "none" THEN <<>>
    ELSE IF HelperPresent(b) /\ b.helperDef = "broken" THEN <<"helper">>
    ELSE (IF HelperPresent(b) THEN <<"helper">> ELSE <<>>) \o
         (IF b.funcDef = "broken" THEN <<"func">> ELSE <<"func", "call">>)

Whats(log) == [k \in 1..Len(log) |-> log[k].what]

\* C19: each descrambling attempt creates its own fresh script context that
\* no other attempt uses; in it the helper fragment (if present), then the
\* function fragment are loaded and then the function is invoked once; a
\* failed load ends the attempt before any later step, and no definition of
\* one attempt is visible to another.
C19_FreshContextPerAttempt ==
    \A p \in Procs :
        /\ att[p].pc \in {"helper", "func", "call"} => att[p].vm # 0
        /\ att[p].vm # 0 =>
              LET v == vms[att[p].vm]
                  b == att[p].playerCode
              IN  /\ \A q \in Procs \ {p} : att[q].vm # att[p].vm
                  /\ \A k \in 1..Len(v.log) : v.log[k].who = p
                  /\ IsPrefix(Whats(v.log), ExpectedScripts(b))
                  /\ \A k \in 1..(Len(v.log) - 1) : v.log[k].ok
                  /\ att[p].pc = "done" => Whats(v.log) = ExpectedScripts(b)
                  /\ v.helper => HelperPresent(b) /\ b.helperDef = "ok"
                  /\ v.body \in {"none", b.body}

\* C19 witness: one attempt loaded its helper and its function and got a
\* result; the other, whose function needs a helper its bundle does not
\* hold, failed at the call in a context of its own
C19_Witness ==
    /\ att[1].pc = "done"
    /\ att[2].pc = "done"
    /\ att[1].playerCode = BundleOk
    /\ att[1].err = ""
    /\ att[1].result = <<"B", "A">>
    /\ att[2].playerCode = Bundle(Fn, Hp, "none", "ok", "helper_reverse")
    /\ att[2].err = "call"
    /\ Len(vms) = Cardinality(Procs)
    /\ att[1].vm # att[2].vm
    /\ Whats(vms[att[1].vm].log) = <<"helper", "func", "call">>
    /\ Whats(vms[att[2].vm].log) = <<"func", "call">>

\* both fragments of the bundle load and the function returns no string
ReturnsNoString(b) ==
    /\ b.funcName # <<>>
    /\ b.funcDef = "ok"
    /\ b.helperName = <<>> \/ b.helperDef # "broken"
    /\ b.body = "undefined"

\* C20: decryptSignature returns a signature only when both fragments loaded
\* and the invoked function returned a string: when the function returns a
\* value that is no string (undefined) the call is an invocation error and
\* nothing is appended to the URL, which stays the cipher's url.
C20_NonStringIsError ==
    \A p \in Procs :
        (Returned(p) /\ BundleObtained /\ ReturnsNoString(playerCode[p])) =>
            \A i \in 1..Len(Served) :
                (NeedsDescrambling(Served[i]) /\ ~Unquotable(CipherOf(Served[i]).s)) =>
                    video[p].Formats[PosOf(Served, i)].Url = CipherOf(Served[i]).url

\* C20 at decryptSignature itself: an attempt that ends without an error has
\* loaded its function fragment and called a function that returns a string,
\* and an attempt whose load or call fails returns no signature.
C20_ErrorsOfLoadAndThrow ==
    \A p \in Procs :
        att[p].pc = "done" =>
            LET b == att[p].playerCode IN
            /\ (att[p].err = "" /\ b.body # "undefined") => Descrambles(b)
            /\ (b.funcName # <<>> /\ b.funcDef = "broken") => att[p].err = "func"
            /\ (b.funcName # <<>> /\ b.funcDef = "ok" /\ HelperPresent(b)
                    /\ b.helperDef = "broken") => att[p].err = "helper"
            /\ (b.funcName # <<>> /\ b.funcDef = "ok" /\ b.body = "throws"
                    /\ ~(HelperPresent(b) /\ b.helperDef = "broken")) =>
                  att[p].err = "call"
            /\ att[p].err # "" => att[p].result = <<>>

\* a call that throws ended an attempt with the invocation error
C20_ThrowReached ==
    /\ att[1].pc = "done"
    /\ att[1].playerCode.body = "throws"
    /\ att[1].err = "call"
    /\ Len(vms[att[1].vm].log) > Cardinality(Procs)

\* each signature with the text a function that reverses its argument
\* returns for it
SigCases ==
    {[s |-> <<"A","B">>, reversed |-> <<"B","A">>],
     [s |-> <<"B","A","A">>, reversed |-> <<"A","A","B">>],
     [s |-> <<"A","\"","B">>, reversed |-> <<"B","\"","A">>],
     [s |-> <<"A","\\","B">>, reversed |-> <<"B","\\","A">>],
     [s |-> <<"A","\n","B">>, reversed |-> <<"B","\n","A">>]}

SigCaseOf(sig) == CHOOSE c \in SigCases : c.s = sig

\* the text holds a character that does not stand for itself between the
\* quotes of a string literal
NotLiteral(sig) == \E k \in 1..Len(sig) : sig[k] \in {"\"", "\\", "\n"}

\* C21: for every signature S, a double quote, a backslash or a line break
\* in it included, the function is invoked with one argument whose value is
\* S: an attempt on a bundle whose function loads and returns its argument
\* reversed ends with the reverse of S.
C21_ArgumentIsSignature ==
    \A p \in Procs :
        (att[p].pc = "done" /\ Descrambles(att[p].playerCode)) =>
            /\ att[p].err = ""
            /\ att[p].result = SigCaseOf(att[p].signature).reversed

\* C21, for the signatures without a double quote, a backslash or a line
\* break: the function receives the signature as it is, and the scripts run
\* in the context are the fragments and one call.
C21_PlainArgument ==
    \A p \in Procs :
        (att[p].pc = "done" /\ Descrambles(att[p].playerCode)
            /\ ~NotLiteral(att[p].signature)) =>
            /\ att[p].err = ""
            /\ att[p].result = SigCaseOf(att[p].signature).reversed
            /\ Len(SelectSeq(vms[att[p].vm].log, LAMBDA e : e.what = "call")) = 1

\* the signature BAA reached the function of a bundle without helper
C21_PlainReached ==
    /\ att[2].pc = "done"
    /\ att[2].signature = <<"B","A","A">>
    /\ att[2].playerCode.helperName = <<>>
    /\ att[2].result = <<"A","A","B">>

\* the requests for the script bundle among the requests of a call
BundleRequests(r) == SelectSeq(r, LAMBDA x : x = "js")

\* C22: within one resolution the script bundle is requested at most once,
\* before any stream descriptor is processed; while the descriptors are
\* processed no request is sent and the bundle text stays the one fetched,
\* and a failed fetch of the bundle is not tried again.
C22_BundleFetchedOnce ==
    [][\A p \in Procs :
          /\ Len(BundleRequests(reqs'[p])) <= 1
          /\ pc[p] = "formats" =>
                /\ reqs'[p] = reqs[p]
                /\ playerCode'[p] = playerCode[p]
          /\ (pc[p] = "parse" /\ pc'[p] = "formats") =>
                /\ idx'[p] = 1
                /\ chain'[p] = {}
                /\ video'[p].Formats = <<>>]_vars

\* C22 witness: two streams were descrambled after a single request for the
\* bundle
C22_Witness ==
    /\ Returned(1)
    /\ Cardinality(chain[1]) >= 2
    /\ Len(video[1].Formats) >= 2
    /\ reqs[1] = <<"page", "js">>

\* the request for the bundle failed and was not sent again
C22_FailedFetchReached ==
    /\ Returned(1)
    /\ net.page.jsUrl
    /\ net.js.doErr
    /\ \E i \in 1..Len(Served) : NeedsDescrambling(Served[i])
    /\ reqs[1] = <<"page", "js">>

====
